---- MODULE Spec2Model ----
(***************************************************************************)
(* A model of the qPCR analysis core: replicate quality control, the       *)
(* delta-Ct / delta-delta-Ct normalisation, the fold-change derivation,    *)
(* the selection of the hypothesis test, the multiple-comparison           *)
(* correction, the pairwise post-hoc tests, the quality-control and        *)
(* statistics stages around them, and the analysis runner that starts a    *)
(* job for each queue record.                                              *)
(*                                                                         *)
(* The operations of the core are functions over tables.  A table is a     *)
(* sequence of rows (records).  A nullable number is either NaN (the empty *)
(* tuple) or Num(v) (the one-element tuple <<v>>), so that a missing value *)
(* never compares equal to a present one.  A missing label is NA_LABEL.    *)
(*                                                                         *)
(* Units: CT values, delta-Ct and delta-delta-Ct are integers in tenths of *)
(* a cycle in the QC part and whole cycles in the normalisation part; a    *)
(* standard deviation is an integer in 1e-4 cycles (the code rounds it to  *)
(* four decimals); a proportion is a fraction <<numerator, denominator>>;  *)
(* min_proportion is a percentage.                                         *)
(***************************************************************************)
EXTENDS Integers, Sequences, FiniteSets, TLC

VARIABLES
    op,     \* the operation the caller invoked last ("idle" before any call)
    args,   \* the arguments of that call
    ret     \* what the call produced: a result, or the error it raised

vars == <<op, args, ret>>

(***************************************************************************)
(* Nullable values                                                         *)
(***************************************************************************)
NaN == <<>>
Num(v) == <<v>>
val(x) == x[1]
isna(x) == x = NaN
notna(x) == x # NaN
NA_LABEL == "<NA>"

RECURSIVE SeqSum(_)
SeqSum(s) == IF s = <<>> THEN 0 ELSE Head(s) + SeqSum(Tail(s))

\* the elements of a sequence
Rows(s) == {s[i] : i \in 1..Len(s)}

RECURSIVE SeqSumSq(_)
SeqSumSq(s) == IF s = <<>> THEN 0 ELSE Head(s) * Head(s) + SeqSumSq(Tail(s))

(***************************************************************************)
(* Bounds and input domains of the replicate QC                            *)
(***************************************************************************)
MaxRows == 3

\* the (Sample Name, Target Name) labels a well can carry: three replicate
\* groups that differ in one label each, and a well whose sample is missing
QCKeys == {<<"S1", "G1">>, <<"S1", "G2">>, <<"S2", "G1">>, <<NA_LABEL, "G1">>}
\* CT in tenths of a cycle: 20.0 and 20.4, or undetermined
QCCts == {NaN, Num(200), Num(204)}
\* sd_cutoff in 1e-4 cycles: 0.2 and the default 0.5
SdCutoffs == {2000, 5000}
\* min_proportion in percent: the default 0.5, and 0.75
MinProportions == {50, 75}

WellTable(t) ==
    [i \in 1..Len(t) |->
        [Well |-> i, Sample |-> t[i][1][1], Target |-> t[i][1][2], CT |-> t[i][2]]]

\* the tables of n wells
QCTables(n) == { WellTable(t) : t \in [1..n -> QCKeys \X QCCts] }

(***************************************************************************)
(* filter_replicates                                                       *)
(***************************************************************************)
\* groupby(['Sample Name', 'Target Name']): rows with a missing key are
\* left out of every group (pandas' dropna=True default)
GroupKeys(df) ==
    { <<df[i].Sample, df[i].Target>> :
        i \in { j \in 1..Len(df) : df[j].Sample # NA_LABEL /\ df[j].Target # NA_LABEL } }

GroupRows(df, key) ==
    SelectSeq(df, LAMBDA r : r.Sample = key[1] /\ r.Target = key[2])

\* the present CT values of a group, in row order
PresentCts(rows) ==
    LET p == SelectSeq(rows, LAMBDA r : notna(r.CT))
    IN  [i \in 1..Len(p) |-> val(p[i].CT)]

\* round(sqrt(1e6 * v / d)) for v >= 0, d > 0, by bisection on lo..hi:
\* the k with (2k-1)^2 * d <= 4e6 * v < (2k+1)^2 * d
RECURSIVE RoundSqrt(_, _, _, _)
RoundSqrt(v, d, lo, hi) ==
    IF lo >= hi THEN lo
    ELSE LET mid == (lo + hi + 1) \div 2
         IN  IF (2 * mid - 1) * (2 * mid - 1) * d <= 4000000 * v
             THEN RoundSqrt(v, d, mid, hi)
             ELSE RoundSqrt(v, d, lo, mid - 1)

\* 'std' of a group followed by .round(4): the sample standard deviation
\* (ddof = 1) of the present values in 1e-4 cycles, NaN with fewer than 2
agg_std(xs) ==
    LET n == Len(xs)
    IN  IF n < 2 THEN NaN
        ELSE Num(RoundSqrt(n * SeqSumSq(xs) - SeqSum(xs) * SeqSum(xs),
                           n * (n - 1), 0, 5000))

\* 'count' of a group: pandas counts the non-missing values of the column
agg_count(rows) == Len(PresentCts(rows))

\* lambda x: x.notna().sum()
agg_notna_sum(rows) == Len(PresentCts(rows))

\* stats['valid_count'] / stats['total_count']: 0 / 0 is NaN
valid_proportion_of(valid_count, total_count) ==
    IF total_count = 0 THEN NaN ELSE <<valid_count, total_count>>

GroupStats(df, key) ==
    LET rows == GroupRows(df, key)
        total == agg_count(rows)
        valid == agg_notna_sum(rows)
    IN  [sd |-> agg_std(PresentCts(rows)),
         total_count |-> total,
         valid_count |-> valid,
         valid_proportion |-> valid_proportion_of(valid, total)]

\* a comparison with NaN is False
sd_ok(sd, sd_cutoff) == notna(sd) /\ val(sd) <= sd_cutoff
proportion_ok(vp, min_proportion) ==
    notna(vp) /\ vp[1] * 100 >= min_proportion * vp[2]

\* stats: one row of statistics per replicate group
QCStats(df) == [k \in GroupKeys(df) |-> GroupStats(df, k)]

\* stats[(sd <= sd_cutoff) & (valid_proportion >= min_proportion)].index
ValidGroups(stats, sd_cutoff, min_proportion) ==
    { k \in DOMAIN stats :
        /\ sd_ok(stats[k].sd, sd_cutoff)
        /\ proportion_ok(stats[k].valid_proportion, min_proportion) }

\* df[mask] and df[~mask]
FilteredRows(df, valid_groups) ==
    SelectSeq(df, LAMBDA r : <<r.Sample, r.Target>> \in valid_groups)

\* A faulty variant of FlaggedRows: the flagged rows taken from an inner join
\* with the failing groups of stats, so that a well without a group is lost
FlaggedRows_innerJoin(df, valid_groups) ==
    SelectSeq(df, LAMBDA r : /\ <<r.Sample, r.Target>> \in GroupKeys(df)
                             /\ ~(<<r.Sample, r.Target>> \in valid_groups))

FlaggedRows(df, valid_groups) ==
    SelectSeq(df, LAMBDA r : ~(<<r.Sample, r.Target>> \in valid_groups))

\* the reasons are kept as a sequence of tags; the code joins their texts with "; "
get_fail_reason(sd, vp, sd_cutoff, min_proportion) ==
    LET r1 == IF notna(sd) /\ val(sd) > sd_cutoff THEN <<"SD">> ELSE <<>>
        r2 == IF notna(vp) /\ vp[1] * 100 < min_proportion * vp[2]
              THEN <<"Valid proportion">> ELSE <<>>
    IN  IF r1 \o r2 # <<>> THEN r1 \o r2 ELSE <<"Unknown">>

\* merge(stats.reset_index(), on=[...], how='left'): a row without a group
\* (a missing key) gets missing statistics
MergeStats(stats, r) ==
    LET k == <<r.Sample, r.Target>>
        has == k \in DOMAIN stats
    IN  [Well |-> r.Well, Sample |-> r.Sample, Target |-> r.Target, CT |-> r.CT,
         sd |-> IF has THEN stats[k].sd ELSE NaN,
         total_count |-> IF has THEN Num(stats[k].total_count) ELSE NaN,
         valid_count |-> IF has THEN Num(stats[k].valid_count) ELSE NaN,
         valid_proportion |-> IF has THEN stats[k].valid_proportion ELSE NaN]

WithReason(m, sd_cutoff, min_proportion) ==
    [Well |-> m.Well, Sample |-> m.Sample, Target |-> m.Target, CT |-> m.CT,
     sd |-> m.sd, total_count |-> m.total_count, valid_count |-> m.valid_count,
     valid_proportion |-> m.valid_proportion,
     qc_fail_reason |-> get_fail_reason(m.sd, m.valid_proportion, sd_cutoff, min_proportion)]

filter_replicates(df, sd_cutoff, min_proportion) ==
    LET stats == QCStats(df)
        valid_groups == ValidGroups(stats, sd_cutoff, min_proportion)
        kept == FilteredRows(df, valid_groups)
        rest == FlaggedRows(df, valid_groups)
    IN  [filtered |-> [i \in 1..Len(kept) |-> MergeStats(stats, kept[i])],
         flagged |-> [i \in 1..Len(rest) |->
                        WithReason(MergeStats(stats, rest[i]), sd_cutoff, min_proportion)]]

(***************************************************************************)
(* Input domains of the normalisation                                      *)
(***************************************************************************)
MaxCtLevels == 2

NormSamples == <<"Control", "Treated">>
NormGenes == <<"GAPDH", "MYC", "TP53">>
\* one row per (Sample Name, Target Name), as calculate_replicate_means
\* produces them: sorted by sample, then by gene
NormKeys ==
    [i \in 1..(Len(NormSamples) * Len(NormGenes)) |->
        <<NormSamples[((i - 1) \div Len(NormGenes)) + 1],
          NormGenes[((i - 1) % Len(NormGenes)) + 1]>>]

\* a mean CT (whole cycles): missing, or 18, 22, ...
NormCts == {NaN} \cup {Num(18 + 4 * i) : i \in 0..(MaxCtLevels - 1)}
\* a delta-Ct handed to compute_delta_delta_ct: missing, or 2, 4, ...
NormDeltas == {NaN} \cup {Num(2 + 2 * i) : i \in 0..(MaxCtLevels - 1)}

\* "no row for this key"
Absent == <<0, 0>>

PresentKeys(f) == SelectSeq(NormKeys, LAMBDA k : f[k] # Absent)

MeanTable(f) ==
    [columns |-> {"Sample Name", "Target Name", "ct_mean"},
     rows |-> [i \in 1..Len(PresentKeys(f)) |->
                 [Sample |-> PresentKeys(f)[i][1], Target |-> PresentKeys(f)[i][2],
                  ct_mean |-> f[PresentKeys(f)[i]]]]]

MeanTables ==
    { MeanTable(f) : f \in [Rows(NormKeys) -> NormCts \cup {Absent}] }

\* a table that lacks a required column
ColumnlessTables ==
    { [columns |-> c, rows |-> <<>>] :
        c \in {{"Sample Name", "Target Name"}, {"ct_mean"}} }

DeltaCtTable(f) ==
    [columns |-> {"Sample Name", "Target Name", "delta_ct"},
     rows |-> [i \in 1..Len(PresentKeys(f)) |->
                 [Sample |-> PresentKeys(f)[i][1], Target |-> PresentKeys(f)[i][2],
                  delta_ct |-> f[PresentKeys(f)[i]]]]]

DeltaCtTables ==
    { DeltaCtTable(f) : f \in [Rows(NormKeys) -> NormDeltas \cup {Absent}] }

\* an optional list argument left at its default
None == <<"None">>

ReferenceGenes == {"GAPDH", "ACTB"}
TargetGeneLists == {None, <<"MYC">>, <<"MYC", "TP53">>}
ControlConditions == {"Control", "Untreated"}
ExperimentalLists == {None, <<"Treated">>}

\* Tables given row by row, where two rows may carry the same labels: a
\* table of mean CTs with a target outside the list <<"MYC">> (TP53) and a
\* sample without a reference CT (Treated), and a table of delta-Cts with a
\* condition outside the list <<"Treated">> (Mock) and a target without a
\* control value (GAPDH)
MaxNormRows == 3

RowCts == {NaN, Num(18), Num(22)}
RowDeltas == {NaN, Num(2), Num(4)}
MeanRowKeys ==
    {<<"Control", "GAPDH">>, <<"Control", "MYC">>, <<"Control", "TP53">>,
     <<"Treated", "MYC">>}
DeltaCtRowKeys ==
    {<<"Control", "MYC">>, <<"Treated", "MYC">>, <<"Treated", "GAPDH">>,
     <<"Mock", "MYC">>}
MeanRowLists == [1..MaxNormRows -> MeanRowKeys \X RowCts]
DeltaCtRowLists == [1..MaxNormRows -> DeltaCtRowKeys \X RowDeltas]
MeanRowTable(t) ==
    [columns |-> {"Sample Name", "Target Name", "ct_mean"},
     rows |-> [i \in 1..Len(t) |->
                 [Sample |-> t[i][1][1], Target |-> t[i][1][2], ct_mean |-> t[i][2]]]]
DeltaCtRowTable(t) ==
    [columns |-> {"Sample Name", "Target Name", "delta_ct"},
     rows |-> [i \in 1..Len(t) |->
                 [Sample |-> t[i][1][1], Target |-> t[i][1][2], delta_ct |-> t[i][2]]]]

(***************************************************************************)
(* compute_delta_ct and compute_delta_delta_ct                             *)
(***************************************************************************)
\* A faulty variant of Raise: the message names nothing
Raise_unnamed(kind, names) == [status |-> "error", error |-> kind, names |-> {}]

\* raise kind(message): names is what the message names
Raise(kind, names) == [status |-> "error", error |-> kind, names |-> names]

\* float subtraction: missing if either operand is missing
Sub(x, y) == IF isna(x) \/ isna(y) THEN NaN ELSE Num(val(x) - val(y))

\* aggfunc='first' over the rows of one (index, column) cell: the first
\* present value, missing when there is none
FirstValue(rows, rk, ck, vk, r, c) ==
    LET cell == SelectSeq(rows, LAMBDA x : x[rk] = r /\ x[ck] = c /\ notna(x[vk]))
    IN  IF cell = <<>> THEN NaN ELSE Head(cell)[vk]

\* df.pivot_table(index=rk, columns=ck, values=vk, aggfunc='first'): cells
\* without a present value are dropped before reshaping, so an index or a
\* column label all of whose cells are missing is not in the matrix
pivot_table(rows, rk, ck, vk) ==
    LET idx == { rows[i][rk] : i \in { j \in 1..Len(rows) : notna(rows[j][vk]) } }
        cols == { rows[i][ck] : i \in { j \in 1..Len(rows) : notna(rows[j][vk]) } }
    IN  [index |-> idx, columns |-> cols,
         at |-> [r \in idx |-> [c \in cols |-> FirstValue(rows, rk, ck, vk, r, c)]]]

\* the elements of a set as a list
RECURSIVE SetToSeq(_)
SetToSeq(S) ==
    IF S = {} THEN <<>>
    ELSE LET x == CHOOSE y \in S : TRUE IN <<x>> \o SetToSeq(S \ {x})

\* pd.DataFrame(data).reset_index().melt(id_vars=..., var_name=...,
\* value_name=...): the long table with one row per column label (outer) and
\* index label (inner) of the wide table, column after column
melt(data, index) ==
    LET cols == SetToSeq(DOMAIN data)
        idx == SetToSeq(index)
    IN  [n \in 1..(Len(cols) * Len(idx)) |->
            [outer |-> cols[((n - 1) \div Len(idx)) + 1],
             inner |-> idx[((n - 1) % Len(idx)) + 1],
             value |-> data[cols[((n - 1) \div Len(idx)) + 1]][idx[((n - 1) % Len(idx)) + 1]]]]

\* A faulty variant of merged_rows_of: an inner merge, where a row of df
\* without a match is left out
merged_rows_of_inner(i, matches) ==
    [k \in 1..Len(matches) |-> <<i, matches[k].value>>]

\* how='left', for row i of df: the row once for each melted row with its
\* labels, or once with a missing value when there is none
merged_rows_of(i, matches) ==
    IF matches = <<>> THEN << <<i, NaN>> >>
    ELSE [k \in 1..Len(matches) |-> <<i, matches[k].value>>]

\* df.merge(result, on=[sample_col, target_col], how='left'): the rows of df
\* in their order, as pairs of the position of the row in df and the value
\* merged to it; outer_key and inner_key are the fields of df that hold the
\* melted table's column label and index label
RECURSIVE merge(_, _, _, _, _)
merge(rows, outer_key, inner_key, melted, i) ==
    IF i > Len(rows) THEN <<>>
    ELSE merged_rows_of(i, SelectSeq(melted,
                                     LAMBDA m : /\ m.outer = rows[i][outer_key]
                                                /\ m.inner = rows[i][inner_key]))
         \o merge(rows, outer_key, inner_key, melted, i + 1)

\* delta_ct_data[reference_gene] = pd.Series(0, index=pivot_df.index)
ZeroSeries(index) == [s \in index |-> Num(0)]

\* A faulty variant of reference_values: the reference CT of one sample subtracted for every sample
reference_values_oneSample(pivot_df, reference_gene) ==
    LET s0 == CHOOSE s \in pivot_df.index : notna(pivot_df.at[s][reference_gene])
    IN  [s \in pivot_df.index |-> pivot_df.at[s0][reference_gene]]

\* reference_values = pivot_df[reference_gene]: one value per sample
reference_values(pivot_df, reference_gene) ==
    [s \in pivot_df.index |-> pivot_df.at[s][reference_gene]]

\* A faulty variant of control_values: the control value of one target subtracted for every target
control_values_oneTarget(pivot_df, control_condition) ==
    LET t0 == CHOOSE t \in pivot_df.index : notna(pivot_df.at[t][control_condition])
    IN  [t \in pivot_df.index |-> pivot_df.at[t0][control_condition]]

\* control_values = pivot_df[control_condition]: one value per target
control_values(pivot_df, control_condition) ==
    [t \in pivot_df.index |-> pivot_df.at[t][control_condition]]

compute_delta_ct(df, reference_gene, target_genes) ==
    LET required_cols == {"Sample Name", "Target Name", "ct_mean"}
        missing_cols == required_cols \ df.columns
        pivot_df == pivot_table(df.rows, "Sample", "Target", "ct_mean")
        targets == IF target_genes = None
                   THEN pivot_df.columns \ {reference_gene}
                   ELSE Rows(target_genes)
        missing_targets == targets \ pivot_df.columns
        targets_data == [g \in targets |->
                           [s \in pivot_df.index |->
                              Sub(pivot_df.at[s][g],
                                  reference_values(pivot_df, reference_gene)[s])]]
        delta_ct_data == [g \in targets \cup {reference_gene} |->
                            IF g = reference_gene
                            THEN ZeroSeries(pivot_df.index)
                            ELSE targets_data[g]]
        result == merge(df.rows, "Target", "Sample", melt(delta_ct_data, pivot_df.index), 1)
    IN  IF missing_cols # {} THEN Raise("ValueError", missing_cols)
        ELSE IF reference_gene \notin { df.rows[i].Target : i \in 1..Len(df.rows) }
        THEN Raise("ValueError", {reference_gene})
        ELSE IF reference_gene \notin pivot_df.columns
        THEN Raise("ValueError", {reference_gene})
        ELSE IF target_genes # None /\ missing_targets # {}
        THEN Raise("ValueError", missing_targets)
        ELSE [status |-> "ok",
              rows |-> [n \in 1..Len(result) |->
                          [Sample |-> df.rows[result[n][1]].Sample,
                           Target |-> df.rows[result[n][1]].Target,
                           ct_mean |-> df.rows[result[n][1]].ct_mean,
                           delta_ct |-> result[n][2],
                           reference_gene |-> reference_gene]]]

compute_delta_delta_ct(df, control_condition, experimental_conditions) ==
    LET pivot_df == pivot_table(df.rows, "Target", "Sample", "delta_ct")
        conditions == IF experimental_conditions = None
                      THEN pivot_df.columns \ {control_condition}
                      ELSE Rows(experimental_conditions)
        conditions_data == [c \in conditions |->
                              [t \in pivot_df.index |->
                                 Sub(pivot_df.at[t][c],
                                     control_values(pivot_df, control_condition)[t])]]
        delta_delta_ct_data == [c \in conditions \cup {control_condition} |->
                                  IF c = control_condition
                                  THEN ZeroSeries(pivot_df.index)
                                  ELSE conditions_data[c]]
        result == merge(df.rows, "Sample", "Target",
                        melt(delta_delta_ct_data, pivot_df.index), 1)
    IN  IF control_condition \notin { df.rows[i].Sample : i \in 1..Len(df.rows) }
        THEN Raise("ValueError", {control_condition})
        ELSE IF control_condition \notin pivot_df.columns
        THEN Raise("KeyError", {control_condition})
        ELSE IF conditions \ pivot_df.columns # {}
        THEN Raise("KeyError", conditions \ pivot_df.columns)
        ELSE [status |-> "ok",
              rows |-> [n \in 1..Len(result) |->
                          [Sample |-> df.rows[result[n][1]].Sample,
                           Target |-> df.rows[result[n][1]].Target,
                           delta_ct |-> df.rows[result[n][1]].delta_ct,
                           delta_delta_ct |-> result[n][2],
                           control_condition |-> control_condition]]]

(***************************************************************************)
(* A caller of the normalisation that keeps its tables and calls the two   *)
(* operations again, in any order, as the normalisation stage does once:   *)
(* the table of mean CTs goes to compute_delta_ct and the result of that   *)
(* call goes to compute_delta_delta_ct.                                    *)
(***************************************************************************)
MaxCalls == 2

\* mean tables over the genes GAPDH and MYC
RepeatKeys == {k \in Rows(NormKeys) : k[2] # "TP53"}
RepeatMeanTables ==
    { MeanTable([k \in Rows(NormKeys) |-> IF k \in RepeatKeys THEN g[k] ELSE Absent]) :
        g \in [RepeatKeys -> NormCts \cup {Absent}] }

\* A faulty variant of input_after_delta_ct: the reference_gene column
\* assigned to the caller's table instead of the merged copy
input_after_delta_ct_inPlace(df) ==
    [columns |-> df.columns \cup {"reference_gene"}, rows |-> df.rows]

\* the caller's table after compute_delta_ct: the function only reads df
\* (df.columns, df[...].unique(), df.pivot_table, df.merge build new
\* objects) and assigns the reference_gene column to the merged copy
input_after_delta_ct(df) == df

\* the caller's table after compute_delta_delta_ct: likewise only read
input_after_delta_delta_ct(df) == df

\* delta_ct_df as the stage hands it on: the table compute_delta_ct returned
\* (no rows when it raised)
delta_ct_df_of(mean_df, reference_gene) ==
    LET out == compute_delta_ct(mean_df, reference_gene, None)
    IN  [columns |-> {"Sample Name", "Target Name", "ct_mean", "delta_ct",
                      "reference_gene"},
         rows |-> IF out.status = "ok" THEN out.rows ELSE <<>>]

(***************************************************************************)
(* compute_fold_change                                                     *)
(*                                                                         *)
(* delta_delta_ct is a whole number of cycles here, so that 2^(-ddct) is   *)
(* exact (as it is in binary floating point for these exponents); a fold   *)
(* change is the fraction <<numerator, denominator>>.  The log2 and the    *)
(* confidence-interval columns only add columns and are left out.          *)
(***************************************************************************)
MaxDDCt == 3
MaxFCRows == 2

FCValues == {NaN} \cup {Num(d) : d \in (-MaxDDCt)..MaxDDCt}
FCTables ==
    UNION { [1..n -> [delta_delta_ct : FCValues]] : n \in 0..MaxFCRows }

\* the threshold a caller wants the classification to use
Thresholds == {2, 4}

\* _classify_regulation's default threshold
DefaultThreshold == 2

RECURSIVE Pow2(_)
Pow2(n) == IF n = 0 THEN 1 ELSE 2 * Pow2(n - 1)

\* A faulty variant of fold_change_of: the sign of the exponent lost
fold_change_of_signLost(ddct) ==
    IF isna(ddct) THEN NaN
    ELSE IF val(ddct) >= 0 THEN <<Pow2(val(ddct)), 1>>
    ELSE <<1, Pow2(-val(ddct))>>

\* 2 ** (-df[delta_delta_ct_col])
fold_change_of(ddct) ==
    IF isna(ddct) THEN NaN
    ELSE IF val(ddct) <= 0 THEN <<Pow2(-val(ddct)), 1>>
    ELSE <<1, Pow2(val(ddct))>>

classify_regulation(fold_change, threshold) ==
    IF isna(fold_change) THEN "Undetermined"
    ELSE IF fold_change[1] >= threshold * fold_change[2] THEN "Upregulated"
    ELSE IF fold_change[1] * threshold <= fold_change[2] THEN "Downregulated"
    ELSE "No change"

\* df.apply(_classify_regulation, axis=1): the threshold is left at its
\* default; compute_fold_change has no parameter that reaches it
compute_fold_change(df) ==
    [i \in 1..Len(df) |->
        [delta_delta_ct |-> df[i].delta_delta_ct,
         fold_change |-> fold_change_of(df[i].delta_delta_ct),
         regulation |-> classify_regulation(fold_change_of(df[i].delta_delta_ct),
                                            DefaultThreshold)]]

(***************************************************************************)
(* run_stat_tests                                                          *)
(*                                                                         *)
(* The dataset is kept by what the control flow reads of it: its columns   *)
(* and, per group label, the number of rows left after dropna.  The        *)
(* outcomes of the library's tests are inputs: per group whether the       *)
(* normality test gives p > 0.05, and whether the chosen test's p-value is *)
(* below alpha.                                                            *)
(***************************************************************************)
MaxObs == 3

StatGroups == <<"A", "B", "C">>
TestTypes == {"auto", "ttest", "anova", "mwu", "kruskal", "friedman", "wilcoxon"}
\* groups: one column name (kept as a one-element tuple) or a list of columns
GroupArgs == {<<"Condition">>, <<"Condition", "Batch">>}
\* isinstance(groups, list)
IsList(groups) == Len(groups) > 1

StatFrames ==
    { [columns |-> {"Condition", "Batch", "value"}, nobs |-> n] :
        n \in [Rows(StatGroups) -> 0..MaxObs] }

\* the normality outcomes: only a group the test is run on has one
NormalityOutcomes(df) ==
    { f \in [Rows(StatGroups) -> BOOLEAN] : \A g \in Rows(StatGroups) : f[g] => df.nobs[g] >= 3 }

\* unique_groups, in order of appearance, and group_data
unique_groups(df) == SelectSeq(StatGroups, LAMBDA g : df.nobs[g] > 0)
group_data_of(df, normal) ==
    [i \in 1..Len(unique_groups(df)) |->
        [n |-> df.nobs[unique_groups(df)[i]], normal |-> normal[unique_groups(df)[i]]]]

\* A faulty variant of normality_result: a group too small for the
\* normality test counted as normal
normality_result_smallIsNormal(data) == IF data.n >= 3 THEN data.normal ELSE TRUE

\* p_norm > 0.05 for a group of at least 3 observations, else False
normality_result(data) == IF data.n >= 3 THEN data.normal ELSE FALSE

auto_select_test(group_data, paired) ==
    LET n_groups == Len(group_data)
        all_normal == /\ n_groups > 0
                      /\ \A i \in 1..n_groups : normality_result(group_data[i])
    IN  IF n_groups = 2
        THEN IF all_normal THEN "ttest" ELSE "mwu"
        ELSE IF paired THEN "friedman"
        ELSE IF all_normal THEN "anova"
        ELSE "kruskal"

Result(test_name) == [status |-> "ok", test_name |-> test_name]

run_ttest(group1, group2, paired) ==
    IF paired
    THEN IF group1.n # group2.n
         THEN Raise("ValueError", "Paired t-test requires equal sample sizes")
         ELSE Result("Paired t-test")
    ELSE Result("Independent t-test")

\* A faulty variant of run_friedman: the number of blocks not checked
run_friedman_unchecked(group_data) == Result("Friedman test")

\* pivot_table(values=values_col, columns=group_col, aggfunc='first') has no
\* index: it is one row (the first value of each group), or none for an
\* empty dataset
run_friedman(group_data) ==
    LET blocks == IF Len(group_data) = 0 THEN 0 ELSE 1
    IN  IF blocks < 2
        THEN Raise("ValueError", "Friedman test requires at least 2 blocks (subjects)")
        ELSE Result("Friedman test")

\* A faulty variant of run_test: a t-test or Mann-Whitney U request with another number of groups
\* than 2 answered by the multi-group test instead of an error
run_test_fallback(test_type, group_data, paired) ==
    LET n_groups == Len(group_data)
    IN  IF test_type = "ttest"
        THEN IF n_groups # 2
             THEN IF n_groups < 2 THEN Raise("ValueError", "ANOVA requires at least 2 groups")
                  ELSE Result("One-way ANOVA")
             ELSE run_ttest(group_data[1], group_data[2], paired)
        ELSE IF test_type = "anova"
        THEN IF n_groups < 2 THEN Raise("ValueError", "ANOVA requires at least 2 groups")
             ELSE Result("One-way ANOVA")
        ELSE IF test_type = "mwu"
        THEN IF n_groups # 2
             THEN IF n_groups < 2
                  THEN Raise("ValueError", "Kruskal-Wallis test requires at least 2 groups")
                  ELSE Result("Kruskal-Wallis test")
             ELSE Result("Mann-Whitney U test")
        ELSE IF test_type = "kruskal"
        THEN IF n_groups < 2
             THEN Raise("ValueError", "Kruskal-Wallis test requires at least 2 groups")
             ELSE Result("Kruskal-Wallis test")
        ELSE IF test_type = "friedman"
        THEN IF ~paired THEN Raise("ValueError", "Friedman test requires paired data")
             ELSE run_friedman(group_data)
        ELSE Raise("ValueError", "Unknown test type")

\* the if / elif chain that runs the test
run_test(test_type, group_data, paired) ==
    LET n_groups == Len(group_data)
    IN  IF test_type = "ttest"
        THEN IF n_groups # 2 THEN Raise("ValueError", "T-test requires exactly 2 groups")
             ELSE run_ttest(group_data[1], group_data[2], paired)
        ELSE IF test_type = "anova"
        THEN IF n_groups < 2 THEN Raise("ValueError", "ANOVA requires at least 2 groups")
             ELSE Result("One-way ANOVA")
        ELSE IF test_type = "mwu"
        THEN IF n_groups # 2
             THEN Raise("ValueError", "Mann-Whitney U test requires exactly 2 groups")
             ELSE Result("Mann-Whitney U test")
        ELSE IF test_type = "kruskal"
        THEN IF n_groups < 2
             THEN Raise("ValueError", "Kruskal-Wallis test requires at least 2 groups")
             ELSE Result("Kruskal-Wallis test")
        ELSE IF test_type = "friedman"
        THEN IF ~paired THEN Raise("ValueError", "Friedman test requires paired data")
             ELSE run_friedman(group_data)
        ELSE Raise("ValueError", "Unknown test type")

\* A faulty variant of check_assumptions: the normality results computed for
\* every test type
check_assumptions_anyTest(group_data, test_type) ==
    [key \in {"normality"} |->
        SelectSeq([i \in 1..Len(group_data) |-> i], LAMBDA i : group_data[i].n >= 3)]

\* _check_assumptions: for a t-test or an ANOVA, assumptions['normality'] is
\* the list of the normality results of the groups with at least 3
\* observations (kept as the positions of these groups); for the other
\* tests there is no such key
check_assumptions(group_data, test_type) ==
    [key \in (IF test_type \in {"ttest", "anova"} THEN {"normality"} ELSE {}) |->
        SelectSeq([i \in 1..Len(group_data) |-> i], LAMBDA i : group_data[i].n >= 3)]

\* the call's outcome: the test type after auto-selection, the caller's
\* columns after the call, and the results or the error
run_stat_tests(df, groups, test_type, paired, normal, p_below_alpha) ==
    LET columns == IF IsList(groups) THEN df.columns \cup {"_group"} ELSE df.columns
        group_data == group_data_of(df, normal)
        selected == IF test_type = "auto" THEN auto_select_test(group_data, paired)
                    ELSE test_type
        results == run_test(selected, group_data, paired)
    IN  IF results.status = "error"
        THEN [status |-> "error", error |-> results.error, names |-> results.names,
              test_type |-> selected, df_columns |-> columns]
        ELSE [status |-> "ok", test_name |-> results.test_name,
              test_type |-> selected, df_columns |-> columns,
              groups |-> unique_groups(df),
              n_groups |-> Len(group_data),
              significant |-> p_below_alpha,
              sample_sizes |-> [i \in 1..Len(group_data) |-> group_data[i].n],
              assumptions |-> check_assumptions(group_data, selected)]

(***************************************************************************)
(* adjust_pvalues                                                          *)
(*                                                                         *)
(* A p-value is missing (NaN) or an exact fraction <<numerator,            *)
(* denominator>>; fractions are not reduced and are compared by cross      *)
(* multiplication.  multipletests is the library routine the code calls:   *)
(* it sorts the p-values, scales them by rank, accumulates, caps at 1 and  *)
(* puts the values back in the caller's order.                             *)
(***************************************************************************)
MaxPvals == 3

PValues == {NaN, <<0, 1>>, <<1, 100>>, <<1, 25>>, <<1, 2>>, <<1, 1>>}
PLists == UNION { [1..n -> PValues] : n \in 0..MaxPvals }
Methods == {"bonferroni", "holm", "fdr_bh"}

FracEq(x, y) == x[1] * y[2] = y[1] * x[2]
FracLess(x, y) == x[1] * y[2] < y[1] * x[2]
FracMax(x, y) == IF FracLess(x, y) THEN y ELSE x
FracMin(x, y) == IF FracLess(y, x) THEN y ELSE x
FracMul(x, k) == <<x[1] * k, x[2]>>
FracDiv(x, k) == <<x[1], x[2] * k>>

\* A faulty variant of CapAtOne: the corrected p-value left as it is
CapAtOne_none(x) == x

\* pvals_corrected[pvals_corrected > 1] = 1
CapAtOne(x) == IF x[1] > x[2] THEN <<1, 1>> ELSE x

\* the place of pvals[i] in np.argsort(pvals); the order of equal p-values
\* does not reach the result, they are kept in input order here
SortRank(pvals, i) ==
    1 + Cardinality({j \in 1..Len(pvals) : FracLess(pvals[j], pvals[i])})
      + Cardinality({j \in 1..(i - 1) : FracEq(pvals[j], pvals[i])})

\* sortind = np.argsort(pvals)
argsort(pvals) ==
    [k \in 1..Len(pvals) |-> CHOOSE i \in 1..Len(pvals) : SortRank(pvals, i) = k]

\* np.maximum.accumulate
RECURSIVE maximum_accumulate(_)
maximum_accumulate(xs) ==
    IF Len(xs) <= 1 THEN xs
    ELSE LET front == maximum_accumulate(SubSeq(xs, 1, Len(xs) - 1))
         IN  Append(front, FracMax(front[Len(front)], xs[Len(xs)]))

\* np.minimum.accumulate(xs[::-1])[::-1]
RECURSIVE minimum_accumulate_reversed(_)
minimum_accumulate_reversed(xs) ==
    IF Len(xs) <= 1 THEN xs
    ELSE LET back == minimum_accumulate_reversed(Tail(xs))
         IN  <<FracMin(Head(xs), Head(back))>> \o back

\* the corrected p-values of the sorted p-values, before the cap
pvals_corrected_sorted(sorted, method) ==
    LET ntests == Len(sorted)
    IN  IF method = "bonferroni"
        THEN [k \in 1..ntests |-> FracMul(sorted[k], ntests)]
        ELSE IF method = "holm"
        THEN maximum_accumulate(
                 [k \in 1..ntests |-> FracMul(sorted[k], ntests - k + 1)])
        ELSE minimum_accumulate_reversed(
                 [k \in 1..ntests |-> FracDiv(FracMul(sorted[k], ntests), k)])

\* multitest.multipletests(pvals, alpha=alpha, method=method)[1]
multipletests(pvals, method) ==
    LET sortind == argsort(pvals)
        sorted == [k \in 1..Len(pvals) |-> pvals[sortind[k]]]
        corrected == pvals_corrected_sorted(sorted, method)
    IN  [i \in 1..Len(pvals) |-> CapAtOne(corrected[SortRank(pvals, i)])]

\* the positions selected by ~nan_mask, in order
NotNanPositions(pvalues) ==
    SelectSeq([i \in 1..Len(pvalues) |-> i], LAMBDA i : notna(pvalues[i]))

\* the place of position i among the positions selected by ~nan_mask
PlaceOf(positions, i) == CHOOSE k \in 1..Len(positions) : positions[k] = i

\* A faulty variant of adjust_pvalues: a missing p-value takes part in the
\* correction as 1.0 and is set back to missing afterwards
adjust_pvalues_nanCounted(pvalues, method) ==
    LET filled == [i \in 1..Len(pvalues) |->
                      IF isna(pvalues[i]) THEN <<1, 1>> ELSE pvalues[i]]
        corrected == multipletests(filled, method)
    IN  IF pvalues = <<>> THEN <<>>
        ELSE IF \A i \in 1..Len(pvalues) : isna(pvalues[i]) THEN pvalues
        ELSE [i \in 1..Len(pvalues) |->
                 IF isna(pvalues[i]) THEN NaN ELSE corrected[i]]

adjust_pvalues(pvalues, method) ==
    LET positions == NotNanPositions(pvalues)
        corrected == multipletests([k \in 1..Len(positions) |-> pvalues[positions[k]]],
                                   method)
    IN  IF pvalues = <<>> THEN <<>>
        ELSE IF \A i \in 1..Len(pvalues) : isna(pvalues[i]) THEN pvalues
        ELSE [i \in 1..Len(pvalues) |->
                 IF isna(pvalues[i]) THEN NaN
                 ELSE corrected[PlaceOf(positions, i)]]

(***************************************************************************)
(* create_comparison_matrix                                                *)
(***************************************************************************)
MaxPairs == 2

PosthocGroups == <<"A", "B", "C">>
\* a row of pairwise results: two distinct groups and the value of the
\* chosen column
PairRows ==
    { [group1 |-> g[1], group2 |-> g[2], p_adjusted |-> v] :
        g \in { h \in Rows(PosthocGroups) \X Rows(PosthocGroups) : h[1] # h[2] },
        v \in {<<1, 100>>, <<1, 2>>} }
PairTables == UNION { [1..n -> PairRows] : n \in 0..MaxPairs }
\* the groups argument: left out, or a list of groups in the caller's order
GroupLists == {None, <<"B", "A">>, <<"A", "B", "C">>}

\* sorted(set(list(group1.unique()) + list(group2.unique())))
groups_of(pairwise_results) ==
    SelectSeq(PosthocGroups,
              LAMBDA g : \E i \in 1..Len(pairwise_results) :
                            g \in {pairwise_results[i].group1, pairwise_results[i].group2})

\* pd.DataFrame(index=groups, columns=groups, dtype=float) and
\* np.fill_diagonal(matrix.values, 1.0)
empty_matrix(groups) ==
    [a \in Rows(groups) |-> [b \in Rows(groups) |-> IF a = b THEN <<1, 1>> ELSE NaN]]

\* A faulty variant of fill_cells: only matrix.loc[g1, g2] is assigned
fill_cells_oneWay(matrix, g1, g2, value) ==
    [a \in DOMAIN matrix |-> [b \in DOMAIN matrix |->
        IF a = g1 /\ b = g2 THEN value ELSE matrix[a][b]]]

\* matrix.loc[g1, g2] = value; matrix.loc[g2, g1] = value
fill_cells(matrix, g1, g2, value) ==
    [a \in DOMAIN matrix |-> [b \in DOMAIN matrix |->
        IF (a = g1 /\ b = g2) \/ (a = g2 /\ b = g1) THEN value ELSE matrix[a][b]]]

\* for _, row in pairwise_results.iterrows(): ...
RECURSIVE fill_matrix(_, _)
fill_matrix(matrix, rows) ==
    IF rows = <<>> THEN matrix
    ELSE LET row == Head(rows)
             filled == IF row.group1 \in DOMAIN matrix /\ row.group2 \in DOMAIN matrix
                       THEN fill_cells(matrix, row.group1, row.group2, row.p_adjusted)
                       ELSE matrix
         IN  fill_matrix(filled, Tail(rows))

create_comparison_matrix(pairwise_results, groups) ==
    LET labels == IF groups = None THEN groups_of(pairwise_results) ELSE groups
    IN  [index |-> labels, columns |-> labels,
         at |-> fill_matrix(empty_matrix(labels), pairwise_results)]

(***************************************************************************)
(* run_pairwise_tests                                                      *)
(*                                                                         *)
(* The cleaned data are kept as the list of their group labels, in order   *)
(* of appearance.  What the library computes for a pair of groups (the     *)
(* test statistic, the p-value, the difference and its interval, the       *)
(* effect size) is an input: one outcome per pair.  Numbers are exact      *)
(* fractions.                                                              *)
(***************************************************************************)
MaxGroups == 3

PairwiseLabels == <<"A", "B", "C", "D">>
\* clean_df[group_col].unique()
PairwiseGroups == { SubSeq(PairwiseLabels, 1, k) : k \in 0..MaxGroups }
\* the four documented test types and one that is not a test type
PairwiseTestTypes == {"tukey", "dunn", "pairwise_t", "pairwise_mwu", "games_howell"}
\* what the library computes for one pair
PairOutcomes ==
    { [statistic |-> <<4, 1>>, p_value |-> <<1, 100>>, effect |-> <<3, 1>>,
       lower |-> <<1, 1>>, upper |-> <<5, 1>>, effect_size |-> <<3, 2>>],
      [statistic |-> <<-2, 1>>, p_value |-> <<1, 25>>, effect |-> <<-2, 1>>,
       lower |-> <<-3, 1>>, upper |-> <<-1, 1>>, effect_size |-> <<-1, 1>>],
      [statistic |-> <<0, 1>>, p_value |-> <<1, 2>>, effect |-> <<0, 1>>,
       lower |-> <<-2, 1>>, upper |-> <<2, 1>>, effect_size |-> <<0, 1>>] }

\* list(itertools.combinations(groups, 2)): the pairs of positions i < j, in
\* lexicographic order
combinations(groups) ==
    LET k == Len(groups)
    IN  SelectSeq([n \in 1..(k * k) |-> <<((n - 1) \div k) + 1, ((n - 1) % k) + 1>>],
                  LAMBDA c : c[1] < c[2])

\* one library outcome per pair
OutcomeLists(groups) == [1..Len(combinations(groups)) -> PairOutcomes]

\* tukey.summary().data[1:]: one row per pair with the columns group1,
\* group2, meandiff, p-adj, lower, upper, reject of the library's table
tukey_summary_data(groups, outcomes) ==
    [n \in 1..Len(combinations(groups)) |->
        <<groups[combinations(groups)[n][1]], groups[combinations(groups)[n][2]],
          outcomes[n].effect, outcomes[n].p_value, outcomes[n].lower,
          outcomes[n].upper, FracLess(outcomes[n].p_value, <<1, 20>>)>>]

\* float() of a boolean
float_of_bool(b) == IF b THEN <<1, 1>> ELSE <<0, 1>>

\* row[0], row[1], row[2], row[5], row[4], row[6] of each summary row (the
\* positions are counted from 1 here)
tukey_hsd(groups, outcomes, p_adjust) ==
    LET data == tukey_summary_data(groups, outcomes)
    IN  [n \in 1..Len(data) |->
            [group1 |-> data[n][1],
             group2 |-> data[n][2],
             mean_diff |-> data[n][3],
             p_value |-> data[n][6],
             lower_ci |-> data[n][5],
             upper_ci |-> float_of_bool(data[n][7]),
             p_adjusted |-> data[n][6],
             significant |-> FracLess(data[n][6], <<1, 20>>)]]

\* A faulty variant of with_adjusted: each pair's p-value corrected on its
\* own, as a family of one
with_adjusted_perPair(rows, p_adjust) ==
    [n \in 1..Len(rows) |->
        rows[n] @@ [p_adjusted |-> adjust_pvalues(<<rows[n].p_value>>, p_adjust)[1],
                    significant |-> FracLess(rows[n].p_value, <<1, 20>>)]]

\* results_df['p_adjusted'] = adjust_pvalues(results_df['p_value'].tolist(),
\* method=p_adjust); results_df['significant'] = results_df['p_adjusted'] < 0.05
with_adjusted(rows, p_adjust) ==
    LET adjusted == adjust_pvalues([n \in 1..Len(rows) |-> rows[n].p_value], p_adjust)
    IN  [n \in 1..Len(rows) |->
            rows[n] @@ [p_adjusted |-> adjusted[n],
                        significant |-> notna(adjusted[n]) /\ FracLess(adjusted[n], <<1, 20>>)]]

dunn_test(groups, outcomes, p_adjust) ==
    with_adjusted(
        [n \in 1..Len(combinations(groups)) |->
            [group1 |-> groups[combinations(groups)[n][1]],
             group2 |-> groups[combinations(groups)[n][2]],
             statistic |-> outcomes[n].statistic,
             p_value |-> outcomes[n].p_value,
             mean_rank_diff |-> outcomes[n].effect]],
        p_adjust)

pairwise_ttests(groups, outcomes, p_adjust) ==
    with_adjusted(
        [n \in 1..Len(combinations(groups)) |->
            [group1 |-> groups[combinations(groups)[n][1]],
             group2 |-> groups[combinations(groups)[n][2]],
             statistic |-> outcomes[n].statistic,
             p_value |-> outcomes[n].p_value,
             mean_diff |-> outcomes[n].effect,
             cohens_d |-> outcomes[n].effect_size]],
        p_adjust)

pairwise_mwu(groups, outcomes, p_adjust) ==
    with_adjusted(
        [n \in 1..Len(combinations(groups)) |->
            [group1 |-> groups[combinations(groups)[n][1]],
             group2 |-> groups[combinations(groups)[n][2]],
             statistic |-> outcomes[n].statistic,
             p_value |-> outcomes[n].p_value,
             rank_biserial |-> outcomes[n].effect_size,
             median_diff |-> outcomes[n].effect]],
        p_adjust)

\* the rows a family returned; family names the function that built them
Pairwise(family, rows) == [status |-> "ok", family |-> family, rows |-> rows]

run_pairwise_tests(groups, test_type, p_adjust, parametric, outcomes) ==
    IF Len(groups) < 2
    THEN Raise("ValueError", "Need at least 2 groups for pairwise comparisons")
    ELSE IF test_type = "tukey" /\ parametric
    THEN Pairwise("_tukey_hsd", tukey_hsd(groups, outcomes, p_adjust))
    ELSE IF test_type = "dunn" \/ ~parametric
    THEN Pairwise("_dunn_test", dunn_test(groups, outcomes, p_adjust))
    ELSE IF test_type = "pairwise_t"
    THEN Pairwise("_pairwise_ttests", pairwise_ttests(groups, outcomes, p_adjust))
    ELSE IF test_type = "pairwise_mwu"
    THEN Pairwise("_pairwise_mwu", pairwise_mwu(groups, outcomes, p_adjust))
    ELSE Raise("ValueError", "Unknown test type")

(***************************************************************************)
(* The quality-control stage (lambdas/quality_control)                     *)
(*                                                                         *)
(* The stage receives the parsed wells as a list of records, rebuilds the  *)
(* table from them, filters the replicates and reports a summary; the job  *)
(* status it leaves in the job table is part of its outcome.               *)
(***************************************************************************)
MaxWells == 2

\* parsed_data['data']: the records of the parsed wells
WellRecords ==
    UNION { { WellTable(t) : t \in [1..n -> QCKeys \X QCCts] } : n \in 0..MaxWells }

\* pd.DataFrame(records): the columns are the keys of the records, so a
\* table built from no record has no column
DataFrame(records) ==
    [columns |-> IF records = <<>> THEN {}
                 ELSE {"Well", "Sample Name", "Target Name", "CT"},
     rows |-> records]

\* len(calculate_replicate_means(filtered_df)): one row per replicate group
n_mean_groups(filtered) == Cardinality(GroupKeys(filtered))

\* len(filtered_df) / len(df) * 100 if len(df) > 0 else 0, as a fraction
pass_rate_of(passed, total) ==
    IF total > 0 THEN <<passed * 100, total>> ELSE <<0, 1>>

\* lambda_handler of the stage; df.groupby(['Sample Name', 'Target Name'])
\* in filter_replicates raises KeyError for a table without these columns
quality_control(records, sd_cutoff, min_proportion) ==
    LET df == DataFrame(records)
        parts == filter_replicates(df.rows, sd_cutoff, min_proportion)
    IN  IF ~({"Sample Name", "Target Name"} \subseteq df.columns)
        THEN [status |-> "error", error |-> "KeyError", names |-> {"Sample Name"},
              job_status |-> "FAILED"]
        ELSE [status |-> "ok",
              job_status |-> "QC_COMPLETE",
              filtered_data |-> parts.filtered,
              flagged_data |-> parts.flagged,
              qc_summary |->
                  [total_wells |-> Len(df.rows),
                   passed_wells |-> Len(parts.filtered),
                   failed_wells |-> Len(parts.flagged),
                   pass_rate |-> pass_rate_of(Len(parts.filtered), Len(df.rows)),
                   n_groups |-> n_mean_groups(parts.filtered),
                   qc_parameters |-> [sd_cutoff |-> sd_cutoff,
                                      min_proportion |-> min_proportion]]]

(***************************************************************************)
(* The statistics stage (lambdas/stats_worker)                             *)
(*                                                                         *)
(* The fold-change table is kept per target: how many sample names the     *)
(* target has, how many rows per sample are left after dropna, and the     *)
(* outcomes of the library's tests on it (normality per sample and the     *)
(* p-value of the test that is run).                                       *)
(***************************************************************************)
MaxTargets == 2

\* one sample; two samples; two samples, one of them without a fold
\* change; three samples; three samples with three values each, normal and
\* not normal
TargetShapes ==
    { [nunique |-> 1, nobs |-> [A |-> 1, B |-> 0, C |-> 0],
       normal |-> [A |-> FALSE, B |-> FALSE, C |-> FALSE]],
      [nunique |-> 2, nobs |-> [A |-> 1, B |-> 1, C |-> 0],
       normal |-> [A |-> FALSE, B |-> FALSE, C |-> FALSE]],
      [nunique |-> 2, nobs |-> [A |-> 1, B |-> 0, C |-> 0],
       normal |-> [A |-> FALSE, B |-> FALSE, C |-> FALSE]],
      [nunique |-> 3, nobs |-> [A |-> 1, B |-> 1, C |-> 1],
       normal |-> [A |-> FALSE, B |-> FALSE, C |-> FALSE]],
      [nunique |-> 3, nobs |-> [A |-> 3, B |-> 3, C |-> 3],
       normal |-> [A |-> TRUE, B |-> TRUE, C |-> TRUE]],
      [nunique |-> 3, nobs |-> [A |-> 3, B |-> 3, C |-> 3],
       normal |-> [A |-> TRUE, B |-> FALSE, C |-> TRUE]] }
\* the raw p-value the test of a target gives
TestPValues == {NaN, <<1, 100>>, <<1, 25>>, <<1, 2>>}
TargetData == { [shape |-> sh, p_value |-> pv] : sh \in TargetShapes, pv \in TestPValues }
FoldChangeData == UNION { [1..n -> TargetData] : n \in 0..MaxTargets }
\* significance_level: the default 0.05, and 0.01
SignificanceLevels == {<<1, 20>>, <<1, 100>>}

\* p < level; a comparison with NaN is False
p_below(p, level) == notna(p) /\ FracLess(p, level)

\* run_stat_tests(target_df, groups='Sample Name', values_col='fold_change',
\* test_type='auto', alpha=significance_level), with its p_value
test_result_of(target, significance_level) ==
    LET results == run_stat_tests(
                       [columns |-> {"Sample Name", "Target Name", "fold_change"},
                        nobs |-> target.shape.nobs],
                       <<"Sample Name">>, "auto", FALSE, target.shape.normal,
                       p_below(target.p_value, significance_level))
    IN  IF results.status = "error" THEN results
        ELSE [status |-> "ok",
              test_name |-> results.test_name,
              test_type |-> results.test_type,
              p_value |-> target.p_value,
              significant |-> results.significant,
              n_groups |-> results.n_groups,
              assumptions |-> results.assumptions]

\* assumptions.get('normality', False), as a condition: the key is there and
\* its list is not empty
has_normality(assumptions) ==
    "normality" \in DOMAIN assumptions /\ Len(assumptions["normality"]) > 0

\* A faulty variant of posthoc_of: the number of groups not looked at
posthoc_of_anyGroupCount(test_result) ==
    IF test_result.significant
    THEN IF has_normality(test_result.assumptions) THEN "tukey" ELSE "dunn"
    ELSE "none"

\* the test_type of the run_pairwise_tests call made for a test result:
\* 'tukey' when the assumption block has normality results, else 'dunn';
\* none (no call) unless the test is significant with more than 2 groups
posthoc_of(test_result) ==
    IF test_result.significant /\ test_result.n_groups > 2
    THEN IF has_normality(test_result.assumptions) THEN "tukey" ELSE "dunn"
    ELSE "none"

\* the calls of the loop over the targets, in the order they are made: for
\* each tested target run_stat_tests and then, if there is one, the
\* run_pairwise_tests call; the loop ends at the first call that raises
RECURSIVE calls_of(_, _)
calls_of(tested, test_results) ==
    IF tested = <<>> THEN <<>>
    ELSE LET first == <<"run_stat_tests", Head(tested)>>
         IN  IF Head(test_results).status = "error" THEN <<first>>
             ELSE (IF posthoc_of(Head(test_results)) = "none" THEN <<first>>
                   ELSE <<first, <<"run_pairwise_tests", Head(tested)>>>>)
                  \o calls_of(Tail(tested), Tail(test_results))

\* the positions of the targets with at least 2 sample names
TestedTargets(fold_change_data) ==
    SelectSeq([i \in 1..Len(fold_change_data) |-> i],
              LAMBDA i : fold_change_data[i].shape.nunique >= 2)

\* A faulty variant of n_significant_of: the raw significance flags counted
n_significant_of_raw(stats_results) ==
    Cardinality({i \in 1..Len(stats_results) : stats_results[i].significant})

\* sum(1 for r in stats_results if r.get('significant_adjusted', False))
n_significant_of(stats_results) ==
    Cardinality({i \in 1..Len(stats_results) : stats_results[i].significant_adjusted})

\* lambda_handler of the stage
stats_worker(fold_change_data, significance_level, p_adjust_method) ==
    LET tested == TestedTargets(fold_change_data)
        test_results == [k \in 1..Len(tested) |->
                            test_result_of(fold_change_data[tested[k]], significance_level)]
        failed == {k \in 1..Len(tested) : test_results[k].status = "error"}
        first_failed == CHOOSE k \in failed : \A j \in failed : k <= j
        all_pvalues == [k \in 1..Len(tested) |-> test_results[k].p_value]
        adjusted_pvalues == adjust_pvalues(all_pvalues, p_adjust_method)
        stats_results ==
            [k \in 1..Len(tested) |->
                [target |-> tested[k],
                 test_name |-> test_results[k].test_name,
                 p_value |-> test_results[k].p_value,
                 significant |-> test_results[k].significant,
                 n_groups |-> test_results[k].n_groups,
                 posthoc |-> posthoc_of(test_results[k]),
                 p_adjusted |-> adjusted_pvalues[k],
                 significant_adjusted |-> p_below(adjusted_pvalues[k], significance_level)]]
    IN  IF failed # {}
        THEN [status |-> "error", error |-> test_results[first_failed].error,
              names |-> test_results[first_failed].names, job_status |-> "FAILED",
              calls |-> calls_of(tested, test_results)]
        ELSE [status |-> "ok",
              job_status |-> "STATISTICS_COMPLETE",
              calls |-> calls_of(tested, test_results),
              statistics_results |-> stats_results,
              statistics_summary |->
                  [n_tests |-> Len(stats_results),
                   n_significant |-> n_significant_of(stats_results),
                   significance_level |-> significance_level,
                   adjustment_method |-> p_adjust_method,
                   test_types_used |-> {stats_results[k].test_name :
                                           k \in 1..Len(stats_results)}]]

(***************************************************************************)
(* The analysis runner (lambdas/analysis_runner)                            *)
(*                                                                         *)
(* A queue record is a job submission that names its job, or a record      *)
(* whose processing raises before a job id is known (a body that is not    *)
(* JSON, a message without job_id and key).  A submission is processed to  *)
(* the end, or raises once its job id is known (no file_key, no such job,  *)
(* no state machine).  The job table is kept as the list of the status     *)
(* updates made, each with the position of the record being processed.     *)
(***************************************************************************)
MaxRecords == 3

JobIds == {"job-1", "job-2"}
QueueRecords ==
    {[kind |-> "malformed"]}
        \cup { [kind |-> "submission", job_id |-> j, raises |-> r] :
                 j \in JobIds, r \in BOOLEAN }
Batches == UNION { [1..n -> QueueRecords] : n \in 0..MaxRecords }
\* the local variable job_id before its first assignment
Unassigned == "<unassigned>"

\* _update_job_status(job_id, status), made while record i is processed
update_job_status(updates, job_id, status, i) ==
    Append(updates, [job_id |-> job_id, status |-> status, record |-> i])

\* the except block: if 'job_id' in locals(): _update_job_status(job_id,
\* 'FAILED', ...); job_id is the local variable of lambda_handler, which a
\* record processed before may have assigned
on_exception(updates, job_id, i) ==
    IF job_id # Unassigned THEN update_job_status(updates, job_id, "FAILED", i)
    ELSE updates

\* the loop over event['Records'] from record i on: job_id is the local
\* variable, updates the status updates made so far
RECURSIVE process_records(_, _, _, _)
process_records(records, i, job_id, updates) ==
    IF i > Len(records) THEN updates
    ELSE IF records[i].kind = "malformed"
    THEN process_records(records, i + 1, job_id, on_exception(updates, job_id, i))
    ELSE LET known == records[i].job_id
             processing == update_job_status(updates, known, "PROCESSING", i)
         IN  IF records[i].raises
             THEN process_records(records, i + 1, known,
                                  on_exception(processing, known, i))
             ELSE process_records(records, i + 1, known, processing)

\* lambda_handler of the analysis runner
analysis_runner(records) ==
    [statusCode |-> 200, updates |-> process_records(records, 1, Unassigned, <<>>)]

(***************************************************************************)
(* The state machine: a caller invokes one operation of the core with      *)
(* inputs of its choice and receives the result; the core keeps nothing    *)
(* between two calls.                                                      *)
(***************************************************************************)
Init ==
    /\ op = "idle"
    /\ args = <<>>
    /\ ret = <<>>

FilterReplicates ==
    /\ op = "idle"
    /\ \E n \in 0..MaxRows :
        \E df \in QCTables(n), c \in SdCutoffs, m \in MinProportions :
            /\ op' = "filter_replicates"
            /\ args' = [df |-> df, sd_cutoff |-> c, min_proportion |-> m]
            /\ ret' = filter_replicates(df, c, m)

\* the call has returned and its result is consumed: nothing is kept
Return ==
    /\ op # "idle"
    /\ op' = "idle"
    /\ args' = <<>>
    /\ ret' = <<>>

ComputeDeltaCt ==
    /\ op = "idle"
    /\ \E df \in MeanTables \cup ColumnlessTables,
          reference_gene \in ReferenceGenes, target_genes \in TargetGeneLists :
        /\ op' = "compute_delta_ct"
        /\ args' = [df |-> df, reference_gene |-> reference_gene,
                    target_genes |-> target_genes]
        /\ ret' = compute_delta_ct(df, reference_gene, target_genes)

ComputeDeltaDeltaCt ==
    /\ op = "idle"
    /\ \E df \in DeltaCtTables,
          control_condition \in ControlConditions,
          experimental_conditions \in ExperimentalLists :
        /\ op' = "compute_delta_delta_ct"
        /\ args' = [df |-> df, control_condition |-> control_condition,
                    experimental_conditions |-> experimental_conditions]
        /\ ret' = compute_delta_delta_ct(df, control_condition, experimental_conditions)

\* the two operations on tables given row by row
ComputeDeltaCtRows ==
    /\ op = "idle"
    /\ \E t \in MeanRowLists,
          reference_gene \in ReferenceGenes, target_genes \in TargetGeneLists :
        /\ op' = "compute_delta_ct"
        /\ args' = [df |-> MeanRowTable(t), reference_gene |-> reference_gene,
                    target_genes |-> target_genes]
        /\ ret' = compute_delta_ct(MeanRowTable(t), reference_gene, target_genes)

ComputeDeltaDeltaCtRows ==
    /\ op = "idle"
    /\ \E t \in DeltaCtRowLists,
          control_condition \in ControlConditions,
          experimental_conditions \in ExperimentalLists :
        /\ op' = "compute_delta_delta_ct"
        /\ args' = [df |-> DeltaCtRowTable(t), control_condition |-> control_condition,
                    experimental_conditions |-> experimental_conditions]
        /\ ret' = compute_delta_delta_ct(DeltaCtRowTable(t), control_condition,
                                         experimental_conditions)

ComputeFoldChange ==
    /\ op = "idle"
    /\ \E df \in FCTables, threshold \in Thresholds, log2_transform \in BOOLEAN :
        /\ op' = "compute_fold_change"
        /\ args' = [df |-> df, threshold |-> threshold, log2_transform |-> log2_transform]
        /\ ret' = compute_fold_change(df)

RunStatTests ==
    /\ op = "idle"
    /\ \E df \in StatFrames, groups \in GroupArgs, test_type \in TestTypes,
          paired \in BOOLEAN, p_below_alpha \in BOOLEAN :
        \E normal \in NormalityOutcomes(df) :
            /\ op' = "run_stat_tests"
            /\ args' = [df |-> df, groups |-> groups, test_type |-> test_type,
                        paired |-> paired, normal |-> normal,
                        p_below_alpha |-> p_below_alpha]
            /\ ret' = run_stat_tests(df, groups, test_type, paired, normal, p_below_alpha)

AdjustPvalues ==
    /\ op = "idle"
    /\ \E pvalues \in PLists, method \in Methods :
        /\ op' = "adjust_pvalues"
        /\ args' = [pvalues |-> pvalues, method |-> method]
        /\ ret' = adjust_pvalues(pvalues, method)

CreateComparisonMatrix ==
    /\ op = "idle"
    /\ \E pairwise_results \in PairTables, groups \in GroupLists :
        /\ op' = "create_comparison_matrix"
        /\ args' = [pairwise_results |-> pairwise_results, groups |-> groups]
        /\ ret' = create_comparison_matrix(pairwise_results, groups)

\* the caller loads its tables: nothing has been called yet
LoadTables ==
    /\ op = "idle"
    /\ \E mean_df \in RepeatMeanTables, reference_gene \in ReferenceGenes,
          control_condition \in ControlConditions :
        /\ op' = "normalize_caller"
        /\ args' = [loaded_mean_df |-> mean_df,
                    loaded_delta_ct_df |-> delta_ct_df_of(mean_df, reference_gene),
                    mean_df |-> mean_df,
                    delta_ct_df |-> delta_ct_df_of(mean_df, reference_gene),
                    reference_gene |-> reference_gene,
                    control_condition |-> control_condition]
        /\ ret' = [delta_ct |-> <<>>, delta_delta_ct |-> <<>>]

\* one more call of compute_delta_ct on the table the caller holds
CallComputeDeltaCt ==
    /\ op = "normalize_caller"
    /\ Len(ret.delta_ct) < MaxCalls
    /\ op' = op
    /\ args' = [args EXCEPT !.mean_df = input_after_delta_ct(@)]
    /\ ret' = [ret EXCEPT !.delta_ct =
                  Append(@, compute_delta_ct(args.mean_df, args.reference_gene, None))]

\* one more call of compute_delta_delta_ct on the table the caller holds
CallComputeDeltaDeltaCt ==
    /\ op = "normalize_caller"
    /\ Len(ret.delta_delta_ct) < MaxCalls
    /\ op' = op
    /\ args' = [args EXCEPT !.delta_ct_df = input_after_delta_delta_ct(@)]
    /\ ret' = [ret EXCEPT !.delta_delta_ct =
                  Append(@, compute_delta_delta_ct(args.delta_ct_df,
                                                   args.control_condition, None))]

QualityControl ==
    /\ op = "idle"
    /\ \E records \in WellRecords, c \in SdCutoffs, m \in MinProportions :
        /\ op' = "quality_control"
        /\ args' = [data |-> records, sd_cutoff |-> c, min_proportion |-> m]
        /\ ret' = quality_control(records, c, m)

StatsWorker ==
    /\ op = "idle"
    /\ \E fold_change_data \in FoldChangeData,
          significance_level \in SignificanceLevels, p_adjust_method \in Methods :
        /\ op' = "stats_worker"
        /\ args' = [fold_change_data |-> fold_change_data,
                    significance_level |-> significance_level,
                    p_adjust_method |-> p_adjust_method]
        /\ ret' = stats_worker(fold_change_data, significance_level, p_adjust_method)

RunPairwiseTests ==
    /\ op = "idle"
    /\ \E groups \in PairwiseGroups, test_type \in PairwiseTestTypes,
          p_adjust \in Methods, parametric \in BOOLEAN :
        \E outcomes \in OutcomeLists(groups) :
            /\ op' = "run_pairwise_tests"
            /\ args' = [groups |-> groups, test_type |-> test_type, p_adjust |-> p_adjust,
                        parametric |-> parametric, outcomes |-> outcomes]
            /\ ret' = run_pairwise_tests(groups, test_type, p_adjust, parametric, outcomes)

AnalysisRunner ==
    /\ op = "idle"
    /\ \E records \in Batches :
        /\ op' = "analysis_runner"
        /\ args' = [Records |-> records]
        /\ ret' = analysis_runner(records)

NextQC == FilterReplicates \/ Return
SpecQC == Init /\ [][NextQC]_vars

NextQCStage == QualityControl \/ Return
SpecQCStage == Init /\ [][NextQCStage]_vars

NextNorm == ComputeDeltaCt \/ ComputeDeltaDeltaCt \/ Return
SpecNorm == Init /\ [][NextNorm]_vars

NextNormRows == ComputeDeltaCtRows \/ ComputeDeltaDeltaCtRows \/ Return
SpecNormRows == Init /\ [][NextNormRows]_vars

NextRunner == AnalysisRunner \/ Return
SpecRunner == Init /\ [][NextRunner]_vars

NextFC == ComputeFoldChange \/ Return
SpecFC == Init /\ [][NextFC]_vars

NextStats == RunStatTests \/ Return
SpecStats == Init /\ [][NextStats]_vars

NextNormRepeat == LoadTables \/ CallComputeDeltaCt \/ CallComputeDeltaDeltaCt \/ Return
SpecNormRepeat == Init /\ [][NextNormRepeat]_vars

NextStatsWorker == StatsWorker \/ Return
SpecStatsWorker == Init /\ [][NextStatsWorker]_vars

NextPairwise == RunPairwiseTests \/ Return
SpecPairwise == Init /\ [][NextPairwise]_vars

NextPosthoc == AdjustPvalues \/ CreateComparisonMatrix \/ Return
SpecPosthoc == Init /\ [][NextPosthoc]_vars

Next ==
    \/ FilterReplicates
    \/ ComputeDeltaCt
    \/ ComputeDeltaDeltaCt
    \/ ComputeDeltaCtRows
    \/ ComputeDeltaDeltaCtRows
    \/ ComputeFoldChange
    \/ RunStatTests
    \/ AdjustPvalues
    \/ CreateComparisonMatrix
    \/ RunPairwiseTests
    \/ QualityControl
    \/ StatsWorker
    \/ AnalysisRunner
    \/ LoadTables
    \/ CallComputeDeltaCt
    \/ CallComputeDeltaDeltaCt
    \/ Return
Spec == Init /\ [][Next]_vars

(***************************************************************************)
(* Replicate QC: properties                                                *)
(***************************************************************************)
WellsOf(t) == {t[j].Well : j \in 1..Len(t)}
Occurrences(t, w) == Cardinality({j \in 1..Len(t) : t[j].Well = w})
SameWell(r, w) ==
    /\ r.Sample = w.Sample
    /\ r.Target = w.Target
    /\ r.CT = w.CT

\* C1: filter_replicates splits the input wells into a filtered and a flagged
\* partition: every input well occurs exactly once in the two partitions
\* together (so in exactly one of them), and the partitions hold no other row.
C1_PartitionOfInput ==
    op = "filter_replicates" =>
        /\ \A i \in 1..Len(args.df) :
            Occurrences(ret.filtered, i) + Occurrences(ret.flagged, i) = 1
        /\ WellsOf(ret.filtered) \cap WellsOf(ret.flagged) = {}
        /\ \A j \in 1..Len(ret.filtered) :
            /\ ret.filtered[j].Well \in 1..Len(args.df)
            /\ SameWell(ret.filtered[j], args.df[ret.filtered[j].Well])
        /\ \A j \in 1..Len(ret.flagged) :
            /\ ret.flagged[j].Well \in 1..Len(args.df)
            /\ SameWell(ret.flagged[j], args.df[ret.flagged[j].Well])

\* C1 witness: a call that puts wells in both partitions, one of them a well
\* without a sample label
C1_Witness ==
    /\ op = "filter_replicates"
    /\ Len(ret.filtered) > 0
    /\ \E j \in 1..Len(ret.flagged) : ret.flagged[j].Sample = NA_LABEL

\* C2: for every replicate group, valid_proportion is the number of rows with
\* a present CT divided by the number of all rows of the group, and the group
\* passes (its rows are in the filtered partition) iff sd <= sd_cutoff and
\* that proportion >= min_proportion.
C2_ProportionOverAllRows ==
    op = "filter_replicates" =>
        \A k \in GroupKeys(args.df) :
            LET rows == GroupRows(args.df, k)
                present == Len(PresentCts(rows))
                total == Len(rows)
                passes == \E j \in 1..Len(ret.filtered) :
                              <<ret.filtered[j].Sample, ret.filtered[j].Target>> = k
            IN  passes <=> /\ sd_ok(agg_std(PresentCts(rows)), args.sd_cutoff)
                           /\ present * 100 >= args.min_proportion * total

\* C17: for an input without wells the QC stage reports both partitions
\* empty and pass_rate 0 (no division by the zero total); for an input with
\* wells it reports pass_rate = passed_wells / total_wells * 100 and
\* passed_wells + failed_wells = total_wells.
C17_PassRateGuarded ==
    op = "quality_control" =>
        /\ ret.status = "ok"
        /\ ret.qc_summary.total_wells = Len(args.data)
        /\ ret.qc_summary.passed_wells + ret.qc_summary.failed_wells
               = ret.qc_summary.total_wells
        /\ Len(args.data) = 0 =>
            /\ ret.filtered_data = <<>>
            /\ ret.flagged_data = <<>>
            /\ FracEq(ret.qc_summary.pass_rate, <<0, 1>>)
        /\ Len(args.data) > 0 =>
            FracEq(ret.qc_summary.pass_rate,
                      <<ret.qc_summary.passed_wells * 100, Len(args.data)>>)

\* whether a flagged row belongs to a replicate group
HasGroup(r) == r.Sample # NA_LABEL /\ r.Target # NA_LABEL

\* C18: every flagged row of a replicate group carries a reason that lists
\* every condition the group violates: the SD reason iff the group's sd
\* exceeds sd_cutoff, the proportion reason iff valid_proportion is below
\* min_proportion, and at least one of the two.
C18_ReasonNamesViolations ==
    op = "filter_replicates" =>
        \A j \in 1..Len(ret.flagged) :
            LET r == ret.flagged[j]
                reasons == Rows(r.qc_fail_reason)
            IN  HasGroup(r) =>
                /\ "SD" \in reasons
                       <=> (notna(r.sd) /\ val(r.sd) > args.sd_cutoff)
                /\ "Valid proportion" \in reasons
                       <=> ( /\ notna(r.valid_proportion)
                             /\ ~proportion_ok(r.valid_proportion, args.min_proportion) )
                /\ reasons \cap {"SD", "Valid proportion"} # {}

\* C19: a replicate group with fewer than 2 present CT values (sd undefined)
\* passes iff its valid_proportion >= min_proportion.
C19_UndefinedSdProportionDecides ==
    op = "filter_replicates" =>
        \A k \in GroupKeys(args.df) :
            LET rows == GroupRows(args.df, k)
                passes == \E j \in 1..Len(ret.filtered) :
                              <<ret.filtered[j].Sample, ret.filtered[j].Target>> = k
            IN  Len(PresentCts(rows)) < 2 =>
                    (passes <=> proportion_ok(QCStats(args.df)[k].valid_proportion,
                                              args.min_proportion))

(***************************************************************************)
(* Normalisation: properties                                               *)
(***************************************************************************)
\* the value column of the row of table rows for (sample, target), missing
\* when the table has no such row (the tables have one row per key)
CellOf(rows, vk, sample, target) ==
    LET hit == SelectSeq(rows, LAMBDA x : x.Sample = sample /\ x.Target = target)
    IN  IF hit = <<>> THEN NaN ELSE Head(hit)[vk]

\* C3: whenever compute_delta_ct returns, every output row of the reference
\* gene has delta_ct exactly 0.
C3_ReferenceDeltaCtZero ==
    (op = "compute_delta_ct" /\ ret.status = "ok") =>
        \A i \in 1..Len(ret.rows) :
            ret.rows[i].Target = args.reference_gene => ret.rows[i].delta_ct = Num(0)

\* C4: whenever compute_delta_delta_ct returns, every output row of the
\* control condition has delta_delta_ct exactly 0.
C4_ControlDeltaDeltaCtZero ==
    (op = "compute_delta_delta_ct" /\ ret.status = "ok") =>
        \A i \in 1..Len(ret.rows) :
            ret.rows[i].Sample = args.control_condition
                => ret.rows[i].delta_delta_ct = Num(0)

\* whether compute_delta_ct was asked to compute gene g
IsTargetGene(g) ==
    /\ g # args.reference_gene
    /\ args.target_genes = None \/ g \in Rows(args.target_genes)

\* C5: for every sample with a mean CT for the reference gene and for a
\* target gene, the sample's row of that target has
\* delta_ct = CT(target) - CT(reference), both of that same sample.
C5_DeltaCtWithinSample ==
    (op = "compute_delta_ct" /\ ret.status = "ok") =>
        \A i \in 1..Len(ret.rows) :
            LET r == ret.rows[i]
                ref == CellOf(args.df.rows, "ct_mean", r.Sample, args.reference_gene)
            IN  (IsTargetGene(r.Target) /\ notna(r.ct_mean) /\ notna(ref))
                    => r.delta_ct = Num(val(r.ct_mean) - val(ref))

\* C5 witness: reference 18 and target 22 give 4 in one sample while another
\* sample with the same target CT and another reference CT gets another value
C5_Witness ==
    /\ op = "compute_delta_ct"
    /\ ret.status = "ok"
    /\ \E i, j \in 1..Len(ret.rows) :
        /\ ret.rows[i].Target = "MYC" /\ ret.rows[j].Target = "MYC"
        /\ ret.rows[i].Sample # ret.rows[j].Sample
        /\ ret.rows[i].ct_mean = Num(22) /\ ret.rows[j].ct_mean = Num(22)
        /\ CellOf(args.df.rows, "ct_mean", ret.rows[i].Sample, "GAPDH") = Num(18)
        /\ CellOf(args.df.rows, "ct_mean", ret.rows[j].Sample, "GAPDH") = Num(22)
        /\ ret.rows[i].delta_ct = Num(4)
        /\ ret.rows[j].delta_ct = Num(0)

\* whether compute_delta_delta_ct was asked to compute condition c
IsExperimental(c) ==
    /\ c # args.control_condition
    /\ args.experimental_conditions = None \/ c \in Rows(args.experimental_conditions)

\* C6: for every target with a delta_ct in the control condition and in an
\* experimental condition, the experimental row has
\* delta_delta_ct = delta_ct(experimental) - delta_ct(control), both of that
\* same target.
C6_DeltaDeltaCtWithinTarget ==
    (op = "compute_delta_delta_ct" /\ ret.status = "ok") =>
        \A i \in 1..Len(ret.rows) :
            LET r == ret.rows[i]
                ctl == CellOf(args.df.rows, "delta_ct", args.control_condition, r.Target)
            IN  (IsExperimental(r.Sample) /\ notna(r.delta_ct) /\ notna(ctl))
                    => r.delta_delta_ct = Num(val(r.delta_ct) - val(ctl))

\* C6 witness: control 4 and treated 2 give -2 for one target while another
\* target with the same treated value and another control value gets 0
C6_Witness ==
    /\ op = "compute_delta_delta_ct"
    /\ ret.status = "ok"
    /\ \E i, j \in 1..Len(ret.rows) :
        /\ ret.rows[i].Sample = "Treated" /\ ret.rows[j].Sample = "Treated"
        /\ ret.rows[i].Target # ret.rows[j].Target
        /\ ret.rows[i].delta_ct = Num(2) /\ ret.rows[j].delta_ct = Num(2)
        /\ CellOf(args.df.rows, "delta_ct", "Control", ret.rows[i].Target) = Num(4)
        /\ CellOf(args.df.rows, "delta_ct", "Control", ret.rows[j].Target) = Num(2)
        /\ ret.rows[i].delta_delta_ct = Num(-2)
        /\ ret.rows[j].delta_delta_ct = Num(0)

RequiredColumns == {"Sample Name", "Target Name", "ct_mean"}
IsValidationError(r, named) ==
    /\ r.status = "error"
    /\ r.error = "ValueError"
    /\ named \subseteq r.names
    /\ "rows" \notin DOMAIN r

\* C13: compute_delta_ct raises a validation error that names the missing
\* columns when a required column is missing, and one that names the
\* reference gene when no row is of that gene; compute_delta_delta_ct raises
\* a validation error that names the control condition when no row is of
\* that sample; no result table is returned in any of these cases.
C13_ValidationErrorsNameOffender ==
    /\ (op = "compute_delta_ct" /\ RequiredColumns \ args.df.columns # {})
        => /\ IsValidationError(ret, RequiredColumns \ args.df.columns)
           /\ ret.names # {}
    /\ ( /\ op = "compute_delta_ct"
         /\ RequiredColumns \subseteq args.df.columns
         /\ \A i \in 1..Len(args.df.rows) : args.df.rows[i].Target # args.reference_gene )
        => IsValidationError(ret, {args.reference_gene})
    /\ ( /\ op = "compute_delta_delta_ct"
         /\ \A i \in 1..Len(args.df.rows) : args.df.rows[i].Sample # args.control_condition )
        => IsValidationError(ret, {args.control_condition})

\* C13 witness: a table with rows of GAPDH and MYC and the reference gene
\* ACTB, answered by the error that names ACTB
C13_Witness ==
    /\ op = "compute_delta_ct"
    /\ args.reference_gene = "ACTB"
    /\ \E i, j \in 1..Len(args.df.rows) :
        args.df.rows[i].Target = "GAPDH" /\ args.df.rows[j].Target = "MYC"
    /\ ret.status = "error"
    /\ ret.names = {"ACTB"}

AllEqual(outputs) == \A i \in 1..Len(outputs) : outputs[i] = outputs[1]

C7_LabelAtConfiguredThreshold ==
    op = "compute_fold_change" =>
        \A i \in 1..Len(ret) :
            ret[i].regulation = classify_regulation(ret[i].fold_change, args.threshold)

\* a / b > c / d for fractions with positive denominators
FracGreater(x, y) == x[1] * y[2] > y[1] * x[2]

NGroups == Cardinality({g \in Rows(StatGroups) : args.df.nobs[g] > 0})
\* every group has at least 3 observations and passes the normality test
AllGroupsNormal ==
    \A g \in Rows(StatGroups) :
        args.df.nobs[g] > 0 => (args.df.nobs[g] >= 3 /\ args.normal[g])
SomeGroupBelow3 ==
    \E g \in Rows(StatGroups) : args.df.nobs[g] > 0 /\ args.df.nobs[g] < 3

\* C9: with test_type = auto the selected test follows the table: 2 groups ->
\* t-test if all groups are normal, else Mann-Whitney U; more than 2 groups
\* -> Friedman if paired, else ANOVA if all groups are normal, else
\* Kruskal-Wallis; a group with fewer than 3 observations is not normal, so
\* no parametric test is selected when there is one.
C9_AutoSelection ==
    (op = "run_stat_tests" /\ args.test_type = "auto") =>
        /\ (NGroups = 2 /\ AllGroupsNormal) => ret.test_type = "ttest"
        /\ (NGroups = 2 /\ ~AllGroupsNormal) => ret.test_type = "mwu"
        /\ (NGroups > 2 /\ args.paired) => ret.test_type = "friedman"
        /\ (NGroups > 2 /\ ~args.paired /\ AllGroupsNormal) => ret.test_type = "anova"
        /\ (NGroups > 2 /\ ~args.paired /\ ~AllGroupsNormal) => ret.test_type = "kruskal"
        /\ SomeGroupBelow3 => ret.test_type \notin {"ttest", "anova"}

\* C9 witness: three unpaired groups, two of them normal and one with fewer
\* than 3 observations: Kruskal-Wallis is selected and run
C9_Witness ==
    /\ op = "run_stat_tests"
    /\ args.test_type = "auto"
    /\ ~args.paired
    /\ NGroups = 3
    /\ SomeGroupBelow3
    /\ Cardinality({g \in Rows(StatGroups) : args.normal[g]}) = 2
    /\ ret.status = "ok"
    /\ ret.test_name = "Kruskal-Wallis test"

TestNamesOf(test_type) ==
    CASE test_type = "ttest" -> {"Paired t-test", "Independent t-test"}
      [] test_type = "anova" -> {"One-way ANOVA"}
      [] test_type = "mwu" -> {"Mann-Whitney U test"}
      [] test_type = "kruskal" -> {"Kruskal-Wallis test"}
      [] test_type = "friedman" -> {"Friedman test"}
      [] OTHER -> {}

GroupCountMismatch ==
    \/ args.test_type \in {"ttest", "mwu"} /\ NGroups # 2
    \/ args.test_type \in {"anova", "kruskal"} /\ NGroups < 2

\* C10: with an explicit test_type, a result returned is the result of that
\* test and of no other, and a number of groups that does not fit the test
\* (t-test or Mann-Whitney U with other than 2 groups, ANOVA or
\* Kruskal-Wallis with fewer than 2) raises a validation error, with no result.
C10_ExplicitTestNoFallback ==
    ( /\ op = "run_stat_tests"
      /\ args.test_type \in {"ttest", "anova", "mwu", "kruskal", "friedman"} ) =>
        /\ ret.test_type = args.test_type
        /\ ret.status = "ok" => ret.test_name \in TestNamesOf(args.test_type)
        /\ GroupCountMismatch =>
            /\ ret.status = "error"
            /\ ret.error = "ValueError"
            /\ "test_name" \notin DOMAIN ret

\* C10 witness: a t-test requested for 3 groups raises the validation error
C10_Witness ==
    /\ op = "run_stat_tests"
    /\ args.test_type = "ttest"
    /\ NGroups = 3
    /\ ret.status = "error"
    /\ ret.error = "ValueError"

\* the subjects with an observation under every condition: paired rows are
\* in subject order, so subject i is complete iff every group has i rows
CompleteSubjects ==
    IF NGroups = 0 THEN 0
    ELSE CHOOSE n \in 0..MaxObs :
            /\ \E g \in Rows(StatGroups) : args.df.nobs[g] = n
            /\ \A g \in Rows(StatGroups) : args.df.nobs[g] > 0 => args.df.nobs[g] >= n

\* C15: the Friedman test on paired data raises an error iff fewer than 2
\* complete subjects remain, and with 2 or more complete subjects returns a
\* Friedman result over all the conditions.
C15_FriedmanNeedsTwoSubjects ==
    ( /\ op = "run_stat_tests"
      /\ args.test_type = "friedman"
      /\ args.paired ) =>
        /\ ret.status = "error" <=> CompleteSubjects < 2
        /\ ret.status = "ok" =>
            /\ ret.test_name = "Friedman test"
            /\ ret.n_groups = NGroups

(***************************************************************************)
(* Multiple-comparison correction: properties                              *)
(***************************************************************************)
NanFree(pvalues) == \A i \in 1..Len(pvalues) : notna(pvalues[i])

\* C11: for a NaN-free list of m raw p-values in [0, 1], adjust_pvalues with
\* method bonferroni returns min(1, p * m) at each position, so that no
\* adjusted p-value is below its raw p-value and none is above 1.
C11_BonferroniScaledAndCapped ==
    ( /\ op = "adjust_pvalues"
      /\ args.method = "bonferroni"
      /\ NanFree(args.pvalues) ) =>
        /\ Len(ret) = Len(args.pvalues)
        /\ \A i \in 1..Len(ret) :
            LET scaled == FracMul(args.pvalues[i], Len(args.pvalues))
            IN  /\ FracEq(ret[i], FracMin(<<1, 1>>, scaled))
                /\ ~FracLess(ret[i], args.pvalues[i])
                /\ ~FracLess(<<1, 1>>, ret[i])

\* C11 witness: three p-values, 0.01 adjusted to 0.03 and 0.5 capped at 1
\* (from 1.5)
C11_Witness ==
    /\ op = "adjust_pvalues"
    /\ args.method = "bonferroni"
    /\ Len(args.pvalues) = 3
    /\ NanFree(args.pvalues)
    /\ \E i, j \in 1..3 :
        /\ args.pvalues[i] = <<1, 100>> /\ FracEq(ret[i], <<3, 100>>)
        /\ args.pvalues[j] = <<1, 2>> /\ FracEq(ret[j], <<1, 1>>)

\* the positions with a present p-value, and the present p-values not above
\* (below) a value
PresentPositions(pvalues) == {i \in 1..Len(pvalues) : notna(pvalues[i])}
CountBelow(pvalues, v) ==
    Cardinality({j \in PresentPositions(pvalues) : FracLess(pvalues[j], v)})
CountNotAbove(pvalues, v) ==
    Cardinality({j \in PresentPositions(pvalues) : ~FracLess(v, pvalues[j])})

\* the textbook corrections of the p-value at position i over the present
\* p-values only: Bonferroni p * m; Holm the largest (m - #smaller) * q over
\* the present q <= p; Benjamini-Hochberg the smallest q * m / #(<= q) over
\* the present q >= p; each capped at 1
ExpectedCorrection(pvalues, i, method) ==
    LET m == Cardinality(PresentPositions(pvalues))
        p == pvalues[i]
        lower == {j \in PresentPositions(pvalues) : ~FracLess(p, pvalues[j])}
        upper == {j \in PresentPositions(pvalues) : ~FracLess(pvalues[j], p)}
        holm(j) == FracMul(pvalues[j], m - CountBelow(pvalues, pvalues[j]))
        bh(j) == FracDiv(FracMul(pvalues[j], m), CountNotAbove(pvalues, pvalues[j]))
        best == IF method = "bonferroni" THEN FracMul(p, m)
                ELSE IF method = "holm"
                THEN holm(CHOOSE j \in lower : \A k \in lower : ~FracLess(holm(j), holm(k)))
                ELSE bh(CHOOSE j \in upper : \A k \in upper : ~FracLess(bh(k), bh(j)))
    IN  FracMin(<<1, 1>>, best)

\* C12: adjust_pvalues returns as many values as it was given; a missing
\* p-value stays missing and a present one holds the correction computed over
\* the present p-values only; an all-missing input is returned unchanged and
\* an empty input gives an empty output.
C12_NanPassThrough ==
    op = "adjust_pvalues" =>
        /\ Len(ret) = Len(args.pvalues)
        /\ \A i \in 1..Len(ret) :
            IF isna(args.pvalues[i]) THEN isna(ret[i])
            ELSE /\ notna(ret[i])
                 /\ FracEq(ret[i], ExpectedCorrection(args.pvalues, i, args.method))
        /\ (\A i \in 1..Len(args.pvalues) : isna(args.pvalues[i])) => ret = args.pvalues
        /\ args.pvalues = <<>> => ret = <<>>

\* C12 witness: a missing p-value between 0.5 and 0.01 under Holm: the two
\* present values are corrected as two tests (0.5 and 0.02)
C12_Witness ==
    /\ op = "adjust_pvalues"
    /\ args.method = "holm"
    /\ args.pvalues = << <<1, 2>>, NaN, <<1, 100>> >>
    /\ FracEq(ret[1], <<1, 2>>)
    /\ isna(ret[2])
    /\ FracEq(ret[3], <<2, 100>>)

\* C16: create_comparison_matrix returns a square group x group matrix that
\* is symmetric with every diagonal entry 1.0, and the entry of a pair that
\* one row compares is that row's value (an entry no row compares is missing
\* on both sides).
C16_SymmetricUnitDiagonal ==
    op = "create_comparison_matrix" =>
        LET labels == Rows(ret.index)
            rows == args.pairwise_results
            hits(a, b) == {i \in 1..Len(rows) : {rows[i].group1, rows[i].group2} = {a, b}}
        IN  /\ ret.columns = ret.index
            /\ DOMAIN ret.at = labels
            /\ \A a \in labels : DOMAIN ret.at[a] = labels
            /\ \A a \in labels : ret.at[a][a] = <<1, 1>>
            /\ \A a, b \in labels : ret.at[a][b] = ret.at[b][a]
            /\ \A a, b \in labels :
                (a # b /\ Cardinality(hits(a, b)) = 1)
                    => \A i \in hits(a, b) : ret.at[a][b] = rows[i].p_adjusted

\* C16 witness: (A, B) and (C, A) compared with different values, (B, C) not
\* compared
C16_Witness ==
    /\ op = "create_comparison_matrix"
    /\ args.groups = <<"A", "B", "C">>
    /\ Len(args.pairwise_results) = 2
    /\ args.pairwise_results[1].group1 = "A" /\ args.pairwise_results[1].group2 = "B"
    /\ args.pairwise_results[2].group1 = "C" /\ args.pairwise_results[2].group2 = "A"
    /\ ret.at["B"]["A"] = <<1, 100>>
    /\ ret.at["A"]["C"] = <<1, 2>>
    /\ isna(ret.at["B"]["C"])

(***************************************************************************)
(* Statistics stage: properties                                            *)
(***************************************************************************)
\* the raw p-values of the tested targets, in target order
RawPValues ==
    LET tested == SelectSeq(args.fold_change_data, LAMBDA t : t.shape.nunique >= 2)
    IN  [k \in 1..Len(tested) |-> tested[k].p_value]

\* C20: every test result keeps its raw p_value and has significant iff that
\* p_value < the significance level; its p_adjusted comes from one correction
\* over the raw p-values of all tested targets and significant_adjusted holds
\* iff p_adjusted < the significance level; n_significant counts the results
\* with adjusted significance.
C20_RawAndAdjustedSignificance ==
    (op = "stats_worker" /\ ret.status = "ok") =>
        LET results == ret.statistics_results
            level == args.significance_level
        IN  /\ Len(results) = Len(RawPValues)
            /\ \A k \in 1..Len(results) :
                /\ results[k].p_value = RawPValues[k]
                /\ results[k].significant
                       <=> (notna(RawPValues[k]) /\ FracLess(RawPValues[k], level))
                /\ IF isna(RawPValues[k]) THEN isna(results[k].p_adjusted)
                   ELSE /\ notna(results[k].p_adjusted)
                        /\ FracEq(results[k].p_adjusted,
                                  ExpectedCorrection(RawPValues, k, args.p_adjust_method))
                /\ results[k].significant_adjusted
                       <=> ( /\ notna(results[k].p_adjusted)
                             /\ FracLess(results[k].p_adjusted, level) )
            /\ ret.statistics_summary.n_significant
                   = Cardinality({k \in 1..Len(results) : results[k].significant_adjusted})

\* C20 witness: two tested targets with raw p-values 0.04 and 0.5 at level
\* 0.05: the first is significant on its raw p-value, not on its adjusted
\* one (0.08), and n_significant is 0
C20_Witness ==
    /\ op = "stats_worker"
    /\ ret.status = "ok"
    /\ args.significance_level = <<1, 20>>
    /\ Len(ret.statistics_results) = 2
    /\ ret.statistics_results[1].p_value = <<1, 25>>
    /\ ret.statistics_results[2].p_value = <<1, 2>>
    /\ ret.statistics_results[1].significant
    /\ FracEq(ret.statistics_results[1].p_adjusted, <<2, 25>>)
    /\ ~ret.statistics_results[1].significant_adjusted
    /\ ret.statistics_summary.n_significant = 0

(***************************************************************************)
(* run_stat_tests: the caller's table, unknown tests, too few groups       *)
(***************************************************************************)
\* C24: run_stat_tests leaves the caller's dataset unchanged: after the call
\* the caller's table has the columns it had before, whether groups is one
\* column name or a list of grouping fields (no '_group' column is added).
C24_CallerTableUnchanged ==
    op = "run_stat_tests" => ret.df_columns = args.df.columns

\* C26: when the cleaned data have fewer than 2 groups, run_stat_tests raises
\* a validation error and returns no test result, for every test_type
\* (auto included) and for both values of paired.
C26_TooFewGroupsIsAnError ==
    (op = "run_stat_tests" /\ NGroups < 2) =>
        /\ ret.status = "error"
        /\ ret.error = "ValueError"
        /\ "test_name" \notin DOMAIN ret

\* C26 witness: one group of three normal observations, test_type auto on
\* paired data: the call raises
C26_Witness ==
    /\ op = "run_stat_tests"
    /\ args.test_type = "auto"
    /\ args.paired
    /\ NGroups = 1
    /\ \E g \in Rows(StatGroups) : args.df.nobs[g] = 3 /\ args.normal[g]
    /\ ret.status = "error"
    /\ ret.error = "ValueError"

(***************************************************************************)
(* run_pairwise_tests: properties                                          *)
(***************************************************************************)
\* the number of groups of the call, and the pair of group labels compared
\* at position n
PairwiseK == Len(args.groups)
PairAt(n) == {ret.rows[n].group1, ret.rows[n].group2}

\* C22: each row of a Tukey HSD result has the pair's mean difference as
\* mean_diff, the bounds of the pair's confidence interval as lower_ci and
\* upper_ci with lower_ci <= mean_diff <= upper_ci, Tukey's p-value of the
\* pair as p_value, and p_adjusted equal to p_value.
C22_TukeyRowColumns ==
    ( /\ op = "run_pairwise_tests"
      /\ args.test_type = "tukey"
      /\ args.parametric
      /\ ret.status = "ok" ) =>
        \A n \in 1..Len(ret.rows) :
            /\ ret.rows[n].mean_diff = args.outcomes[n].effect
            /\ ret.rows[n].lower_ci = args.outcomes[n].lower
            /\ ret.rows[n].upper_ci = args.outcomes[n].upper
            /\ ~FracLess(ret.rows[n].mean_diff, ret.rows[n].lower_ci)
            /\ ~FracLess(ret.rows[n].upper_ci, ret.rows[n].mean_diff)
            /\ ret.rows[n].p_value = args.outcomes[n].p_value
            /\ ret.rows[n].p_adjusted = ret.rows[n].p_value

\* C23: for k >= 2 groups Dunn's test, the pairwise t-tests and the pairwise
\* Mann-Whitney tests return k(k-1)/2 rows, one for every unordered pair of
\* distinct groups and none for a group with itself; each row keeps the raw
\* p-value of its pair and its p_adjusted is the correction computed once
\* over the raw p-values of all the pairs; with fewer than 2 groups
\* run_pairwise_tests raises an error.
C23_AllPairsOneCorrection ==
    op = "run_pairwise_tests" =>
        /\ PairwiseK < 2 => (ret.status = "error" /\ "rows" \notin DOMAIN ret)
        /\ ( /\ ret.status = "ok"
             /\ ret.family \in {"_dunn_test", "_pairwise_ttests", "_pairwise_mwu"} ) =>
            LET raw == [n \in 1..Len(ret.rows) |-> args.outcomes[n].p_value]
            IN  /\ PairwiseK >= 2
                /\ 2 * Len(ret.rows) = PairwiseK * (PairwiseK - 1)
                /\ \A n \in 1..Len(ret.rows) :
                    /\ ret.rows[n].group1 # ret.rows[n].group2
                    /\ PairAt(n) \subseteq Rows(args.groups)
                    /\ \A m \in 1..Len(ret.rows) : PairAt(m) = PairAt(n) => m = n
                    /\ ret.rows[n].p_value = raw[n]
                    /\ FracEq(ret.rows[n].p_adjusted,
                              ExpectedCorrection(raw, n, args.p_adjust))
                    /\ ret.rows[n].significant
                           <=> FracLess(ret.rows[n].p_adjusted, <<1, 20>>)
                /\ \A a, b \in Rows(args.groups) :
                    a # b => \E n \in 1..Len(ret.rows) : PairAt(n) = {a, b}

\* C23 witness: pairwise t-tests over three groups with raw p-values 0.01,
\* 0.04 and 0.5 and the Bonferroni correction: three rows, adjusted to 0.03,
\* 0.12 and 1
C23_Witness ==
    /\ op = "run_pairwise_tests"
    /\ ret.status = "ok"
    /\ ret.family = "_pairwise_ttests"
    /\ args.p_adjust = "bonferroni"
    /\ PairwiseK = 3
    /\ Len(ret.rows) = 3
    /\ ret.rows[1].p_value = <<1, 100>> /\ FracEq(ret.rows[1].p_adjusted, <<3, 100>>)
    /\ ret.rows[2].p_value = <<1, 25>> /\ FracEq(ret.rows[2].p_adjusted, <<3, 25>>)
    /\ ret.rows[3].p_value = <<1, 2>> /\ FracEq(ret.rows[3].p_adjusted, <<1, 1>>)
    /\ ret.rows[1].significant /\ ~ret.rows[2].significant

\* C25: an unknown test identifier is a validation error: run_stat_tests with
\* a test_type outside auto, ttest, anova, mwu, kruskal, friedman and
\* run_pairwise_tests with a test_type outside tukey, dunn, pairwise_t,
\* pairwise_mwu raise an error whatever the other arguments are, and run no
\* test.
C25_UnknownTestIsAnError ==
    /\ ( /\ op = "run_stat_tests"
         /\ args.test_type \notin {"auto", "ttest", "anova", "mwu", "kruskal", "friedman"} ) =>
            /\ ret.status = "error"
            /\ ret.error = "ValueError"
            /\ "test_name" \notin DOMAIN ret
    /\ ( /\ op = "run_pairwise_tests"
         /\ args.test_type \notin {"tukey", "dunn", "pairwise_t", "pairwise_mwu"} ) =>
            /\ ret.status = "error"
            /\ ret.error = "ValueError"
            /\ "rows" \notin DOMAIN ret

\* C30: with test_type pairwise_t run_pairwise_tests runs the pairwise
\* t-tests and with pairwise_mwu the pairwise Mann-Whitney U tests, for both
\* values of parametric; the rows have mean_diff and cohens_d, or
\* rank_biserial and median_diff, and never mean_rank_diff.
C30_PairwiseFamilyAsRequested ==
    ( /\ op = "run_pairwise_tests"
      /\ args.test_type \in {"pairwise_t", "pairwise_mwu"}
      /\ PairwiseK >= 2 ) =>
        /\ ret.status = "ok"
        /\ ret.family = IF args.test_type = "pairwise_t"
                        THEN "_pairwise_ttests" ELSE "_pairwise_mwu"
        /\ \A n \in 1..Len(ret.rows) :
            /\ "mean_rank_diff" \notin DOMAIN ret.rows[n]
            /\ (IF args.test_type = "pairwise_t"
                THEN {"mean_diff", "cohens_d"}
                ELSE {"rank_biserial", "median_diff"}) \subseteq DOMAIN ret.rows[n]

(***************************************************************************)
(* Statistics stage: the post-hoc comparisons                              *)
(***************************************************************************)
\* the tested targets of the call, in target order, and the number of sample
\* names a target has left after its rows without a fold change are dropped
TestedData == SelectSeq(args.fold_change_data, LAMBDA t : t.shape.nunique >= 2)
CleanGroupCount(t) ==
    Cardinality({g \in DOMAIN t.shape.nobs : t.shape.nobs[g] > 0})
PairwiseCalled(target) ==
    \E i \in 1..Len(ret.calls) : ret.calls[i] = <<"run_pairwise_tests", target>>

\* C21: the stats worker runs the pairwise post-hoc comparisons of a target
\* iff the target's omnibus test is significant (raw p-value below the
\* significance level) and has more than 2 groups, never for 2 groups or a
\* non-significant result, and always after the omnibus test of that target.
C21_PosthocIffSignificantManyGroups ==
    op = "stats_worker" =>
        /\ \A i \in 1..Len(ret.calls) :
            ret.calls[i][1] = "run_pairwise_tests" =>
                /\ i > 1
                /\ ret.calls[i - 1] = <<"run_stat_tests", ret.calls[i][2]>>
        /\ ret.status = "ok" =>
            \A k \in 1..Len(ret.statistics_results) :
                LET result == ret.statistics_results[k]
                    due == /\ p_below(TestedData[k].p_value, args.significance_level)
                           /\ CleanGroupCount(TestedData[k]) > 2
                IN  /\ PairwiseCalled(result.target) <=> due
                    /\ result.posthoc # "none" <=> due
                    /\ \E i \in 1..Len(ret.calls) :
                        ret.calls[i] = <<"run_stat_tests", result.target>>

\* C21 witness: two significant targets, the first with 2 groups and the
\* second with 3: the calls are the two omnibus tests and, after the second,
\* its pairwise comparisons
C21_Witness ==
    /\ op = "stats_worker"
    /\ ret.status = "ok"
    /\ Len(ret.statistics_results) = 2
    /\ ret.statistics_results[1].significant /\ ret.statistics_results[1].n_groups = 2
    /\ ret.statistics_results[2].significant /\ ret.statistics_results[2].n_groups = 3
    /\ ret.calls = << <<"run_stat_tests", 1>>, <<"run_stat_tests", 2>>,
                      <<"run_pairwise_tests", 2>> >>

\* C29: in the stats worker (run_stat_tests in auto mode) the post-hoc family
\* of a significant target with more than 2 groups is Tukey HSD exactly when
\* the selected omnibus test is the one-way ANOVA, and Dunn's test exactly
\* when it is Kruskal-Wallis or Friedman.
C29_PosthocFamilyFollowsOmnibus ==
    (op = "stats_worker" /\ ret.status = "ok") =>
        \A k \in 1..Len(ret.statistics_results) :
            LET result == ret.statistics_results[k]
            IN  result.posthoc # "none" =>
                    /\ result.posthoc \in {"tukey", "dunn"}
                    /\ result.posthoc = "tukey" <=> result.test_name = "One-way ANOVA"
                    /\ result.posthoc = "dunn"
                           <=> result.test_name \in {"Kruskal-Wallis test", "Friedman test"}

\* C29 witness: two significant targets of three samples with three values
\* each, the first with normal values (ANOVA, then Tukey HSD) and the second
\* with a sample that is not normal (Kruskal-Wallis, then Dunn's test)
C29_Witness ==
    /\ op = "stats_worker"
    /\ ret.status = "ok"
    /\ Len(ret.statistics_results) = 2
    /\ \A k \in 1..2 : \A g \in DOMAIN TestedData[k].shape.nobs :
           TestedData[k].shape.nobs[g] = 3
    /\ ret.statistics_results[1].test_name = "One-way ANOVA"
    /\ ret.statistics_results[1].posthoc = "tukey"
    /\ ret.statistics_results[2].test_name = "Kruskal-Wallis test"
    /\ ret.statistics_results[2].posthoc = "dunn"

(***************************************************************************)
(* Normalisation: the rows of the result                                   *)
(***************************************************************************)
\* C27: compute_delta_ct and compute_delta_delta_ct return one output row per
\* input row, in input order and with the input columns kept; a row whose
\* value cannot be computed (gene outside an explicit target list, condition
\* outside an explicit experimental list, sample without a reference CT,
\* target without a control value) is kept with a missing value, and no row
\* is dropped or duplicated.
C27_OneRowPerInputRow ==
    (op \in {"compute_delta_ct", "compute_delta_delta_ct"} /\ ret.status = "ok") =>
        /\ Len(ret.rows) = Len(args.df.rows)
        /\ \A i \in 1..Len(ret.rows) :
            /\ \A col \in DOMAIN args.df.rows[i] : ret.rows[i][col] = args.df.rows[i][col]
            /\ op = "compute_delta_ct" =>
                /\ "delta_ct" \in DOMAIN ret.rows[i]
                /\ ( /\ args.target_genes # None
                     /\ ret.rows[i].Target \notin Rows(args.target_genes) \cup {args.reference_gene} )
                       => isna(ret.rows[i].delta_ct)
                /\ (\A j \in 1..Len(args.df.rows) :
                        ( /\ args.df.rows[j].Sample = ret.rows[i].Sample
                          /\ args.df.rows[j].Target = args.reference_gene )
                            => isna(args.df.rows[j].ct_mean))
                       => (ret.rows[i].Target # args.reference_gene
                               => isna(ret.rows[i].delta_ct))
            /\ op = "compute_delta_delta_ct" =>
                /\ "delta_delta_ct" \in DOMAIN ret.rows[i]
                /\ ( /\ args.experimental_conditions # None
                     /\ ret.rows[i].Sample \notin Rows(args.experimental_conditions)
                                                     \cup {args.control_condition} )
                       => isna(ret.rows[i].delta_delta_ct)
                /\ (\A j \in 1..Len(args.df.rows) :
                        ( /\ args.df.rows[j].Target = ret.rows[i].Target
                          /\ args.df.rows[j].Sample = args.control_condition )
                            => isna(args.df.rows[j].delta_ct))
                       => (ret.rows[i].Sample # args.control_condition
                               => isna(ret.rows[i].delta_delta_ct))

\* C27 witness: compute_delta_ct with the target list <<"MYC">> on the rows
\* (Control, GAPDH), (Control, MYC) and (Control, TP53): three rows are
\* returned in this order, the MYC row with a delta_ct and the TP53 row, which
\* is outside the list, with its ct_mean and no delta_ct
C27_Witness ==
    /\ op = "compute_delta_ct"
    /\ ret.status = "ok"
    /\ args.target_genes = <<"MYC">>
    /\ Len(args.df.rows) = 3
    /\ Len(ret.rows) = 3
    /\ ret.rows[1].Sample = "Control" /\ ret.rows[1].Target = "GAPDH"
    /\ ret.rows[2].Sample = "Control" /\ ret.rows[2].Target = "MYC"
    /\ ret.rows[3].Sample = "Control" /\ ret.rows[3].Target = "TP53"
    /\ notna(ret.rows[2].delta_ct)
    /\ notna(ret.rows[3].ct_mean) /\ isna(ret.rows[3].delta_ct)

(***************************************************************************)
(* Analysis runner: properties                                             *)
(***************************************************************************)
\* C28: in a batch of queue records a job's status is set to FAILED only if
\* the processing of that job's own record raised; a record that fails before
\* its job id is known changes the status of no job, and the records after it
\* are still processed.
C28_FailedOnlyByOwnRecord ==
    op = "analysis_runner" =>
        /\ \A u \in 1..Len(ret.updates) :
            ret.updates[u].status = "FAILED" =>
                LET record == args.Records[ret.updates[u].record]
                IN  /\ record.kind = "submission"
                    /\ record.job_id = ret.updates[u].job_id
                    /\ record.raises
        /\ \A i \in 1..Len(args.Records) :
            IF args.Records[i].kind = "malformed"
            THEN \A u \in 1..Len(ret.updates) : ret.updates[u].record # i
            ELSE \E u \in 1..Len(ret.updates) :
                    /\ ret.updates[u].record = i
                    /\ ret.updates[u].job_id = args.Records[i].job_id
                    /\ ret.updates[u].status = "PROCESSING"
====
